---------------------------- MODULE Spec2Model ----------------------------
(***************************************************************************)
(* Model of the embedding-fusion and similarity-search core of the music   *)
(* recommender: EmbeddingCombiner (src/embeddings/embedding_combiner.py),  *)
(* SimilarityEngine (src/recommender/engine/similarity_engine.py) and      *)
(* MusicRecommender (src/recommender/engine/recommender.py).               *)
(*                                                                         *)
(* Numbers.  A vector component x is carried as the integer x * SCALE, a   *)
(* similarity score s as the integer s * SCORE_ONE (SCORE_ONE = SCALE^2,   *)
(* the unit a product of two components has).  Divisions and square roots  *)
(* round to the nearest unit, as floating point rounds to the nearest      *)
(* representable value.  Where the last bit of a float decides what the    *)
(* code does, the scores of _fuzzy_search against the threshold and the    *)
(* half-way cases of round(score, 4), the binary64 value is computed.      *)
(* A missing (None) vector is the empty sequence: the                      *)
(* data model has no zero-length vector.  A call's outcome is a record      *)
(* [kind, value]: kind "returned" with the value, or kind "raised".        *)
(* Python positions are 0-based and are kept 0-based in results; the       *)
(* sequences holding rows are 1-based, row position p is index p - 1.      *)
(***************************************************************************)
EXTENDS Integers, Sequences, FiniteSets, TLC

VARIABLES
    metric,      \* SimilarityEngine.metric, fixed at construction
    tiesStable,  \* the build's np.argsort: TRUE when equal keys keep index order
    simCall,     \* arguments of the find_similar call under observation
    simPc,       \* "idle", "call" before find_similar has run, "done" after
    simResult,   \* what find_similar returned (<<>> until it has)
    combCfg,     \* EmbeddingCombiner: text_weight, features_weight, normalize
    combDf,      \* the rows handed to combine_embeddings
    combPc,      \* "idle", "call" before combine_embeddings has run, "done" after
    combOut,     \* the combined_embedding column it produced
    table,       \* the rows of the embeddings table load_data reads
    cache,       \* MusicRecommender._embeddings_cache: [loaded, df]
    recCfg,      \* MusicRecommender.config (and cache_enabled)
    recCall,     \* arguments of the last get_recommendations call
    recDf,       \* the frame that call worked on
    recOutcome,  \* its outcome: [kind, value]
    recSteps,    \* the stages that call went through, in order
    recFetched,  \* TRUE when the last operation queried the source table
    age,         \* whole cache_ttl periods elapsed since the cache was assigned
    normArg,     \* the array handed to _normalize_vector
    normPc,      \* "idle", "call" before _normalize_vector has run, "done" after
    normOut,     \* what _normalize_vector returned
    engRequested, \* the metric name handed to SimilarityEngine(...)
    engState,    \* "none" before construction, then "ready" or "failed"
    engOut,      \* the outcome of the last call on the engine: [op, kind, value]
    findDf,      \* the frame handed to _find_track
    findCfg,     \* the recommender's fuzzy_matching and fuzzy_threshold
    findCall,    \* track_id, track_name, artist_name of the resolution
    findPc,      \* "idle", "call" before _find_track has run, "done" after
    findRow,     \* the row it returned (1-based position, 0 for None)
    findStages,  \* the stages of _find_track that were evaluated, in order
    txtTexts,    \* the texts handed to _generate_embeddings_batch
    txtBatchSize, \* TextEmbeddingsGenerator.batch_size
    txtI,        \* the loop variable i of _generate_embeddings_batch
    txtAll,      \* all_embeddings
    txtErrors,   \* stats['errors']
    txtFailed,   \* the values of i whose batch call failed
    txtCalls,    \* the values of i for which get_embeddings was called, in order
    txtPc,       \* "idle", "loop" while batches remain, "done" after the return
    rtMax,       \* max_attempts handed to retry_on_api_error
    rtBackoff,   \* backoff_seconds handed to retry_on_api_error
    rtScript,    \* what the wrapped function does at its 1st, 2nd, ... invocation
    rtPc,        \* "idle", "call" before the wrapped function is called, "done" after
    rtResult,    \* the call of the wrapped function: attempts, waits, outcome
    smClient,    \* "lastfm" or "genius"
    smEnabled,   \* is_enabled() of the client
    smTracks,    \* the list handed to search_multiple
    smI,         \* tracks of the list gone through so far
    smResults,   \* results of search_multiple, by track_id
    smPc,        \* "idle", "loop", "returned" or "raised"
    smLookups,   \* positions of the tracks whose decorated method body ran, in order
    smFailed,    \* positions of the tracks for which a call of the API raised
    smStored,    \* positions of the tracks stored into results
    apiBoot,     \* steps of startup_event done so far, -1 once it has raised
    recommender_instance, \* endpoints.recommender_instance is not None
    apiReq,      \* the last request handled
    apiResp,     \* the response to it
    apiSnap,     \* the frame the handler worked on, if it got that far
    featInplace, \* the build's pandas: TRUE when X[col].fillna(inplace=True) writes into X
    featX,       \* X of generate_embeddings, a sequence of columns
    featCol,     \* columns _handle_missing_values has gone through
    featPc,      \* "idle", "impute", "scale" or "done"
    featHanded,  \* the matrix handed to scaler.fit_transform
    pipeRaw,     \* what the raw table holds: [columns, rows]
    pipeDf,      \* df_clean and, unchanged in its required fields, df_features
    pipePc,      \* the step of TransformationPipeline.run that comes next
    pipePassed,  \* what _validate_quality returned ("none" before, "raised")
    pipeLog,     \* warnings logged and writes attempted, in order
    pipeReturn,  \* what run returned ("none" before)
    raceCall,    \* arguments of the get_recommendations call in flight
    racePc,      \* the statement of get_recommendations that comes next
    raceMiss,    \* what the test of line 102 found
    raceDf,      \* the local df of the call in flight
    raceRow,     \* query_row (1-based position, 0 for None)
    raceMatrix,  \* embeddings_matrix
    raceIndex,   \* query_index
    raceSimilar, \* similar_indices
    raceOutcome, \* what the call returned or raised
    loadPc,      \* a concurrent load_data: "idle" or "fetched"
    loadDf       \* the local df of that load_data

simVars == <<metric, tiesStable, simCall, simPc, simResult>>
combVars == <<combCfg, combDf, combPc, combOut>>
recVars == <<table, cache, recCfg, recCall, recDf, recOutcome, recSteps, recFetched, age>>
normVars == <<normArg, normPc, normOut>>
engVars == <<engRequested, engState, engOut>>
findVars == <<findDf, findCfg, findCall, findPc, findRow, findStages>>
textVars == <<txtTexts, txtBatchSize, txtI, txtAll, txtErrors, txtFailed, txtCalls, txtPc>>
retryVars == <<rtMax, rtBackoff, rtScript, rtPc, rtResult>>
searchVars == <<smClient, smEnabled, smTracks, smI, smResults, smPc, smLookups, smFailed, smStored>>
apiVars == <<apiBoot, recommender_instance, apiReq, apiResp, apiSnap>>
featVars == <<featInplace, featX, featCol, featPc, featHanded>>
pipeVars == <<pipeRaw, pipeDf, pipePc, pipePassed, pipeLog, pipeReturn>>
raceVars == <<raceCall, racePc, raceMiss, raceDf, raceRow, raceMatrix, raceIndex, raceSimilar, raceOutcome, loadPc, loadDf>>
moreVars == <<featVars, pipeVars, raceVars>>
extVars == <<retryVars, searchVars, apiVars, moreVars>>
auxVars == <<normVars, engVars, findVars, textVars, extVars>>
vars == <<simVars, combVars, recVars, auxVars>>

\* a missing vector (Python's None in an embedding column)
NoneVec == <<>>

\* ------------------------------------------------------------------ bounds
MaxN == 3        \* rows of a candidate matrix handed to find_similar
MaxK == 3        \* largest k asked of find_similar
MaxRows == 2     \* rows of a frame handed to combine_embeddings
MaxTracks == 2   \* rows of the embeddings table
MaxRecK == 2     \* largest k asked of get_recommendations
MaxDim == 3      \* longest vector handed to _normalize_vector
MaxFindRows == 2 \* rows of a frame handed to _find_track
MaxTexts == 4    \* texts handed to _generate_embeddings_batch
MaxBatchSize == 2 \* largest batch_size of the text generator
MaxAge == 2      \* cache_ttl periods the age of the cache is counted up to
MaxAttempts == 6 \* max_attempts handed to retry_on_api_error
MaxBackoff == 2  \* backoff_seconds handed to retry_on_api_error
MaxSearchTracks == 2 \* tracks handed to search_multiple
MaxCandidates == 4 \* rows of a table ranked with k + 1 below its size
MaxFeatRows == 3 \* rows of the frame handed to generate_embeddings
MaxFeatCols == 2 \* numeric feature columns available in it
MaxPipeRows == 3 \* rows of the raw tracks table

\* ------------------------------------------------------------- arithmetic
SCALE == 10 * 10 * 10
SCORE_ONE == SCALE * SCALE

Abs(x) == IF x < 0 THEN -x ELSE x

\* a / b rounded to the nearest integer (b > 0)
RDiv(a, b) == IF a >= 0 THEN (2 * a + b) \div (2 * b)
                        ELSE -((2 * (-a) + b) \div (2 * b))

RECURSIVE SqrtSearch(_, _, _)
SqrtSearch(n, lo, hi) ==
    IF lo >= hi THEN lo
    ELSE LET mid == (lo + hi + 1) \div 2
         IN IF mid * mid <= n THEN SqrtSearch(n, mid, hi)
                              ELSE SqrtSearch(n, lo, mid - 1)

\* floor of the square root of n, 0 <= n < 2^31
ISqrt(n) == SqrtSearch(n, 0, 46340)

\* the square root of n rounded to the nearest integer; 0 only for n = 0
RSqrt(n) == LET r == ISqrt(n)
            IN IF n - r * r > r THEN r + 1 ELSE r

RECURSIVE SumSeq(_)
SumSeq(s) == IF s = <<>> THEN 0 ELSE Head(s) + SumSeq(Tail(s))

Dot(a, b) == SumSeq([i \in 1..Len(a) |-> a[i] * b[i]])

\* np.linalg.norm(v), in component units
Norm(v) == RSqrt(Dot(v, v))

\* ----------------------------------------------------- EmbeddingCombiner
\* mutant of _normalize_vector: the division by the norm is left out
NormalizeWithoutDivision(vector) == vector

\* mutant of _normalize_vector: the square root of the norm is left out
NormalizeBySquaredNorm(vector) ==
    LET squared == RDiv(Dot(vector, vector), SCALE)
    IN IF squared = 0 THEN vector
       ELSE [i \in 1..Len(vector) |-> RDiv(vector[i] * SCALE, squared)]

\* EmbeddingCombiner._normalize_vector
_normalize_vector(vector) ==
    LET norm == Norm(vector)
    IN IF norm = 0 THEN vector
       ELSE [i \in 1..Len(vector) |-> RDiv(vector[i] * SCALE, norm)]

\* vector * weight, the weight in units of 1/SCALE
Weighted(vector, weight) == [i \in 1..Len(vector) |-> RDiv(vector[i] * weight, SCALE)]

\* np.concatenate([text_weighted, features_weighted])
Concatenate(text_weighted, features_weighted) == text_weighted \o features_weighted

\* lines 68-88 of combine_embeddings, for two vectors that are present
Fuse(text_emb, feature_emb, cfg) ==
    LET t == IF cfg.normalize THEN _normalize_vector(text_emb) ELSE text_emb
        f == IF cfg.normalize THEN _normalize_vector(feature_emb) ELSE feature_emb
        combined == Concatenate(Weighted(t, cfg.text_weight),
                                Weighted(f, cfg.features_weight))
    IN IF cfg.normalize THEN _normalize_vector(combined) ELSE combined

\* mutant of CombineRow: a missing vector is taken as a vector of zeros
CombineRowZeroFill(text_emb, feature_emb, cfg) ==
    Fuse(IF text_emb = NoneVec THEN <<0, 0>> ELSE text_emb,
         IF feature_emb = NoneVec THEN <<0, 0, 0>> ELSE feature_emb, cfg)

\* the body of the loop of combine_embeddings for one row: the value
\* appended to combined_embeddings
CombineRow(text_emb, feature_emb, cfg) ==
    IF text_emb = NoneVec \/ feature_emb = NoneVec THEN NoneVec
    ELSE Fuse(text_emb, feature_emb, cfg)

\* EmbeddingCombiner.combine_embeddings: the combined_embedding column, one
\* entry per row of df in row order (an empty frame is returned as it is)
combine_embeddings(df, cfg) ==
    [i \in 1..Len(df) |-> CombineRow(df[i].text_embedding, df[i].feature_embedding, cfg)]

\* ------------------------------------------------------ SimilarityEngine
Metrics == {"cosine", "euclidean", "dot"}

\* the value np.inf negated: below every score
NegInf == -2000000000

\* sklearn.preprocessing.normalize, as cosine_similarity applies it to each
\* row: a row of norm 0 is divided by 1 and so stays the zero row
sk_normalize(v) ==
    LET n == Norm(v)
    IN IF n = 0 THEN v ELSE [i \in 1..Len(v) |-> RDiv(v[i] * SCALE, n)]

\* cosine_similarity(q, M)[0][p]
cosine_similarity(q, c) == Dot(sk_normalize(q), sk_normalize(c))

\* euclidean_distances(q, M)[0][p], in component units
euclidean_distances(q, c) ==
    RSqrt(SumSeq([i \in 1..Len(q) |-> (q[i] - c[i]) * (q[i] - c[i])]))

\* the similarity of candidate row c to the query under metric m
\* (similarity_engine.py:55-62)
Similarity(m, q, c) ==
    CASE m = "cosine"    -> cosine_similarity(q, c)
      [] m = "euclidean" -> RDiv(SCORE_ONE * SCALE, SCALE + euclidean_distances(q, c))
      [] m = "dot"       -> Dot(c, q)

\* similarities after lines 55-68: the score of every row, the rows named
\* by exclude_indices (0-based, in range) overwritten with -inf
Similarities(m, q, M, exclude) ==
    [p \in 1..Len(M) |->
        IF (p - 1) \in exclude /\ 0 <= p - 1 /\ p - 1 < Len(M)
        THEN NegInf
        ELSE Similarity(m, q, M[p])]

\* np.argsort(s): positions (1-based here) by ascending key.  The default
\* kind is not a stable sort: the order of equal keys is the build's, kept
\* here as the flag stable (index order kept) or not (index order reversed)
argsort(s, stable) ==
    LET Before(a, b) == \/ s[a] < s[b]
                        \/ s[a] = s[b] /\ (IF stable THEN a < b ELSE a > b)
        Rank(p) == Cardinality({a \in 1..Len(s) : Before(a, p)}) + 1
    IN [r \in 1..Len(s) |-> CHOOSE p \in 1..Len(s) : Rank(p) = r]

\* mutant of Reverse: the [::-1] is left out, the order stays ascending
ReverseLeftOut(s) == s

\* s[::-1]
Reverse(s) == [i \in 1..Len(s) |-> s[Len(s) + 1 - i]]

Min(a, b) == IF a < b THEN a ELSE b

\* Body(value), the value being computed once
With(value, Body(_)) == CHOOSE result \in {Body(v) : v \in {value}} : TRUE
Max2(a, b) == IF a > b THEN a ELSE b

\* mutant of Take: the slice keeps one entry too many
TakeOneMore(s, k) == SubSeq(s, 1, Min(k + 1, Len(s)))

\* s[:k] for k >= 0
Take(s, k) == SubSeq(s, 1, Min(k, Len(s)))

\* SimilarityEngine.find_similar: the list of (index, score) pairs
find_similar(m, stable, q, M, k, exclude) ==
    LET similarities == Similarities(m, q, M, exclude)
        top_k_indices == Take(Reverse(argsort(similarities, stable)), k)
    IN [i \in 1..Len(top_k_indices) |->
            [index |-> top_k_indices[i] - 1,
             score |-> similarities[top_k_indices[i]]]]

\* mutant of SimilarityEngine: the test of the metric name is left out
SimilarityEngineUnchecked(requested) == [state |-> "ready", metric |-> requested]

\* SimilarityEngine.__init__: ValueError for a name outside the three
\* metrics, and then the caller holds no engine
SimilarityEngine(requested) ==
    IF requested \notin Metrics
    THEN [state |-> "failed", metric |-> "unset"]
    ELSE [state |-> "ready", metric |-> requested]

\* the outcome of a call on the engine
EngReturned(op, value) == [op |-> op, kind |-> "returned", value |-> value]
EngRaised(op) == [op |-> op, kind |-> "raised", value |-> <<>>]
EngReturnedNone(op) == [op |-> op, kind |-> "none_returned", value |-> <<>>]

\* find_similar on an engine whose metric is m: when no branch of lines
\* 55-62 is taken similarities is unbound at line 71 (UnboundLocalError)
find_similar_call(m, stable, q, M, k, exclude) ==
    IF m \in Metrics
    THEN EngReturned("find_similar", find_similar(m, stable, q, M, k, exclude))
    ELSE EngRaised("find_similar")

\* SimilarityEngine.compute_similarity: when no branch of lines 102-108 is
\* taken the method falls off its end and returns None
compute_similarity(m, embedding1, embedding2) ==
    IF m \in Metrics
    THEN EngReturned("compute_similarity", <<Similarity(m, embedding1, embedding2)>>)
    ELSE EngReturnedNone("compute_similarity")

\* SimilarityEngine.batch_similarity: the N x M matrix, None when no branch
\* of lines 125-131 is taken
batch_similarity(m, query_embeddings, target_embeddings) ==
    IF m \in Metrics
    THEN EngReturned("batch_similarity",
                     [i \in 1..Len(query_embeddings) |->
                         [j \in 1..Len(target_embeddings) |->
                             Similarity(m, query_embeddings[i], target_embeddings[j])]])
    ELSE EngReturnedNone("batch_similarity")

\* ------------------------------------------------------------- characters
\* A string is the sequence of its characters, a character a string of
\* length one.  The characters the model knows by code: the printable
\* ASCII ones, here in the order of their codes 32 to 126, and tab, line
\* feed, form feed and carriage return.  The grave accent (code 96) cannot
\* be written in a string of this module: its place holds a name that no
\* character equals.
Ascii ==
    <<" ", "!", "\"", "#", "$", "%", "&", "'", "(", ")", "*", "+", ",", "-", ".", "/",
      "0", "1", "2", "3", "4", "5", "6", "7", "8", "9", ":", ";", "<", "=", ">", "?",
      "@", "A", "B", "C", "D", "E", "F", "G", "H", "I", "J", "K", "L", "M", "N", "O",
      "P", "Q", "R", "S", "T", "U", "V", "W", "X", "Y", "Z", "[", "\\", "]", "^", "_",
      "grave", "a", "b", "c", "d", "e", "f", "g", "h", "i", "j", "k", "l", "m", "n", "o",
      "p", "q", "r", "s", "t", "u", "v", "w", "x", "y", "z", "{", "|", "}", "~">>

\* ord(c), for the characters known by code
ord(c) ==
    IF \E i \in 1..Len(Ascii) : Ascii[i] = c
    THEN 31 + (CHOOSE i \in 1..Len(Ascii) : Ascii[i] = c)
    ELSE CASE c = "\t" -> 9 [] c = "\n" -> 10 [] c = "\f" -> 12 [] c = "\r" -> 13

\* chr(code); "" stands for a character the model does not know by code,
\* which no character of a string of the model equals
chr(code) ==
    IF code \in (32..126) \ {96} THEN Ascii[code - 31]
    ELSE CASE code = 9 -> "\t" [] code = 10 -> "\n" [] code = 12 -> "\f"
           [] code = 13 -> "\r" [] OTHER -> ""

DIGITS == {Ascii[i] : i \in 17..26}
OCTDIGITS == {Ascii[i] : i \in 17..24}
ASCIILETTERS == {Ascii[i] : i \in (34..59) \cup (66..91)}
HEXDIGITS == DIGITS \cup {Ascii[i] : i \in (34..39) \cup (66..71)}

\* the whitespace str.strip() removes and \s matches, as far as the model
\* can write it
WHITESPACE == {" ", "\t", "\n", "\r", "\f"}

\* ------------------------------------------------------- MusicRecommender
\* str.lower() on one character: the ASCII capitals
LowerChar(c) ==
    IF \E i \in 34..59 : Ascii[i] = c
    THEN Ascii[32 + (CHOOSE i \in 34..59 : Ascii[i] = c)]
    ELSE c

\* str.lower(); a string is the sequence of its characters
lower(str) == [i \in 1..Len(str) |-> LowerChar(str[i])]

\* the elements of b that SequenceMatcher(None, a, b) leaves out of its
\* index b2j: autojunk is on, so when b has 200 elements or more, every
\* element that occurs more than len(b) // 100 + 1 times is "popular"
Popular(b) ==
    IF Len(b) < 200 THEN {}
    ELSE {b[j] : j \in {q \in 1..Len(b) :
                           Cardinality({o \in 1..Len(b) : b[o] = b[q]})
                               > Len(b) \div 100 + 1}}

\* the length of the common run of a[i:ahi] and b[j:bhi] (0-based i, j)
\* that holds no element of skipped
RECURSIVE RunLength(_, _, _, _, _, _, _)
RunLength(a, b, i, j, ahi, bhi, skipped) ==
    IF i < ahi /\ j < bhi /\ a[i + 1] = b[j + 1] /\ b[j + 1] \notin skipped
    THEN 1 + RunLength(a, b, i + 1, j + 1, ahi, bhi, skipped)
    ELSE 0

\* the length of the common run that ends just before a[i] and b[j] and
\* stays inside the windows
RECURSIVE RunBefore(_, _, _, _, _, _)
RunBefore(a, b, i, j, alo, blo) ==
    IF i > alo /\ j > blo /\ a[i] = b[j]
    THEN 1 + RunBefore(a, b, i - 1, j - 1, alo, blo)
    ELSE 0

\* difflib.SequenceMatcher.find_longest_match of SequenceMatcher(None, a, b):
\* <<i, j, k>>.  The longest block of elements indexed in b2j (the popular
\* ones are not) is looked for inside the two windows, the one that starts
\* earliest in a and, of those, earliest in b, <<alo, blo, 0>> if there is
\* none; it is then extended to both sides over equal elements, popular or
\* not (there is no junk)
find_longest_match(a, b, alo, ahi, blo, bhi) ==
    LET Starts == (alo..(ahi - 1)) \X (blo..(bhi - 1))
        \* <<i, j, size>> of the run of indexed elements at every start
        Blocks(popular) ==
            {<<alo, blo, 0>>}
                \cup {<<ij[1], ij[2], RunLength(a, b, ij[1], ij[2], ahi, bhi, popular)>> :
                         ij \in Starts}
        Earlier(m, o) == m[1] < o[1] \/ (m[1] = o[1] /\ m[2] <= o[2])
        Best(blocks) ==
            IF \A m \in blocks : m[3] = 0 THEN <<alo, blo, 0>>
            ELSE CHOOSE m \in blocks :
                     \A o \in blocks : m[3] > o[3] \/ (m[3] = o[3] /\ Earlier(m, o))
        Extended(best, before) ==
            <<best[1] - before, best[2] - before,
              before + best[3]
                  + RunLength(a, b, best[1] + best[3], best[2] + best[3], ahi, bhi, {})>>
    IN CHOOSE m \in {Extended(best[1], best[2]) :
                        best \in {<<block, RunBefore(a, b, block[1], block[2], alo, blo)>> :
                                     block \in {Best(blocks) :
                                                   blocks \in {Blocks(popular) :
                                                                  popular \in {Popular(b)}}}}} :
           TRUE

\* the total size of difflib's get_matching_blocks over the two windows
RECURSIVE MatchedSize(_, _, _, _, _, _)
MatchedSize(a, b, alo, ahi, blo, bhi) ==
    LET Rest(i, j, k) ==
            IF k = 0 THEN 0
            ELSE k + (IF alo < i /\ blo < j
                      THEN MatchedSize(a, b, alo, i, blo, j) ELSE 0)
                   + (IF i + k < ahi /\ j + k < bhi
                      THEN MatchedSize(a, b, i + k, ahi, j + k, bhi) ELSE 0)
    IN CHOOSE size \in {Rest(m[1], m[2], m[3]) :
                           m \in {find_longest_match(a, b, alo, ahi, blo, bhi)}} :
           TRUE

\* ---- the binary floating point of the scores of _fuzzy_search
\* A Python float (IEEE-754 binary64) that is not negative is the record
\* [m, e] standing for m / 2^e: m is a natural number of exactly
\* MantissaBits bits, written as its sequence of digits in base LIMB, least
\* significant first and without leading zero digit; zero is [<<>>, 0].
\* Each operation gives the float nearest to the exact result, ties going
\* to the even mantissa.
LimbBits == 3 * 5
LIMB == 2^LimbBits
MantissaBits == 50 + 3

\* the digits of a natural number n
RECURSIVE BigOfInt(_)
BigOfInt(n) == IF n = 0 THEN <<>> ELSE <<n % LIMB>> \o BigOfInt(n \div LIMB)

\* the digits a without leading zeros
RECURSIVE Trim(_)
Trim(a) ==
    IF a = <<>> THEN <<>>
    ELSE IF a[Len(a)] = 0 THEN Trim(SubSeq(a, 1, Len(a) - 1))
    ELSE a

\* a * s + carry, s and carry below LIMB
RECURSIVE MulSmall(_, _, _)
MulSmall(a, s, carry) ==
    IF a = <<>> THEN BigOfInt(carry)
    ELSE <<(Head(a) * s + carry) % LIMB>>
         \o MulSmall(Tail(a), s, (Head(a) * s + carry) \div LIMB)

\* a + b + carry
RECURSIVE BigPlus(_, _, _)
BigPlus(a, b, carry) ==
    IF a = <<>> /\ b = <<>> THEN BigOfInt(carry)
    ELSE LET x == IF a = <<>> THEN 0 ELSE Head(a)
             y == IF b = <<>> THEN 0 ELSE Head(b)
         IN <<(x + y + carry) % LIMB>>
            \o BigPlus(IF a = <<>> THEN <<>> ELSE Tail(a),
                       IF b = <<>> THEN <<>> ELSE Tail(b), (x + y + carry) \div LIMB)

\* a * LIMB^n
Limbs(a, n) == IF a = <<>> THEN <<>> ELSE [i \in 1..n |-> 0] \o a

\* a * b
RECURSIVE BigTimes(_, _)
BigTimes(a, b) ==
    IF a = <<>> \/ b = <<>> THEN <<>>
    ELSE BigPlus(MulSmall(a, Head(b), 0), Limbs(BigTimes(a, Tail(b)), 1), 0)

\* the digits i, i-1, .., 1 of a divided by d (0 < d <= LIMB), r being the
\* remainder carried in from the digits above: quotient and remainder
RECURSIVE DivFrom(_, _, _, _)
DivFrom(a, d, i, r) ==
    IF i = 0 THEN [q |-> <<>>, r |-> r]
    ELSE LET below == DivFrom(a, d, i - 1, (r * LIMB + a[i]) % d)
         IN [q |-> Append(below.q, (r * LIMB + a[i]) \div d), r |-> below.r]

\* the number of binary digits of n
RECURSIVE IntBits(_)
IntBits(n) == IF n = 0 THEN 0 ELSE 1 + IntBits(n \div 2)

BitLength(a) ==
    IF a = <<>> THEN 0 ELSE LimbBits * (Len(a) - 1) + IntBits(a[Len(a)])

\* a * 2^s
ShiftLeft(a, s) == Trim(MulSmall(Limbs(a, s \div LimbBits), 2^(s % LimbBits), 0))

\* a \div 2^s
FloorShift(a, s) ==
    LET high == SubSeq(a, s \div LimbBits + 1, Len(a))
    IN Trim(DivFrom(high, 2^(s % LimbBits), Len(high), 0).q)

\* a < b
RECURSIVE BigLess(_, _)
BigLess(a, b) ==
    IF Len(a) # Len(b) THEN Len(a) < Len(b)
    ELSE IF a = <<>> THEN FALSE
    ELSE IF a[Len(a)] # b[Len(b)] THEN a[Len(a)] < b[Len(b)]
    ELSE BigLess(SubSeq(a, 1, Len(a) - 1), SubSeq(b, 1, Len(b) - 1))

FloatZero == [m |-> <<>>, e |-> 0]

\* a / 2^s (s >= 1) rounded to the nearest integer, ties to even; sticky
\* says that the exact value lies above a by less than one
RoundShift(a, s, sticky) ==
    LET kept == FloorShift(a, s - 1)
        q == FloorShift(kept, 1)
        guard == kept # <<>> /\ kept[1] % 2 = 1
        below == sticky \/ ShiftLeft(kept, s - 1) # a
        odd == q # <<>> /\ q[1] % 2 = 1
    IN IF guard /\ (below \/ odd) THEN Trim(BigPlus(q, <<>>, 1)) ELSE q

\* the float nearest to a / 2^e (a > 0; with sticky, to a value above it by
\* less than 1 / 2^e, a then having more than MantissaBits bits)
RoundToFloat(a, e, sticky) ==
    LET bits == BitLength(a)
    IN IF bits <= MantissaBits
       THEN [m |-> ShiftLeft(a, MantissaBits - bits), e |-> e + (MantissaBits - bits)]
       ELSE LET m == RoundShift(a, bits - MantissaBits, sticky)
            IN IF BitLength(m) > MantissaBits
               THEN [m |-> FloorShift(m, 1), e |-> e - (bits - MantissaBits) - 1]
               ELSE [m |-> m, e |-> e - (bits - MantissaBits)]

\* the float p / q of two integers (p >= 0, 0 < q <= LIMB), which is also
\* the float a decimal literal such as 0.7 denotes (7 / 10)
FloatDiv(p, q) ==
    IF p = 0 THEN FloatZero
    ELSE LET e == MantissaBits + 2 + IntBits(q)
             num == ShiftLeft(BigOfInt(p), e)
             d == DivFrom(num, q, Len(num), 0)
         IN RoundToFloat(Trim(d.q), e, d.r # 0)

\* x * y
FloatTimes(x, y) ==
    IF x.m = <<>> \/ y.m = <<>> THEN FloatZero
    ELSE RoundToFloat(BigTimes(x.m, y.m), x.e + y.e, FALSE)

\* x + y
FloatPlus(x, y) ==
    IF x.m = <<>> THEN y
    ELSE IF y.m = <<>> THEN x
    ELSE LET e == Max2(x.e, y.e)
         IN RoundToFloat(BigPlus(ShiftLeft(x.m, e - x.e), ShiftLeft(y.m, e - y.e), 0),
                         e, FALSE)

\* x < y
FloatLess(x, y) ==
    IF y.m = <<>> THEN FALSE
    ELSE IF x.m = <<>> THEN TRUE
    ELSE IF x.e # y.e THEN x.e > y.e
    ELSE BigLess(x.m, y.m)

\* difflib.SequenceMatcher(None, a, b).ratio(): 2.0 * matches / length as
\* a float, 1.0 when both are empty
ratio(a, b) ==
    IF Len(a) + Len(b) = 0 THEN FloatDiv(1, 1)
    ELSE FloatDiv(2 * MatchedSize(a, b, 0, Len(a), 0, Len(b)), Len(a) + Len(b))

\* the score _fuzzy_search gives one row (recommender.py:245-263), a float:
\* name_similarity * 0.7 + artist_similarity * 0.3, each operation rounded
FuzzyScore(row, track_name, artist_name) ==
    LET name_similarity == ratio(lower(track_name), lower(row.track_name))
    IN IF artist_name # <<>>
       THEN FloatPlus(FloatTimes(name_similarity, FloatDiv(7, 10)),
                      FloatTimes(ratio(lower(artist_name), lower(row.artist_name)),
                                 FloatDiv(3, 10)))
       ELSE name_similarity

\* the loop of _fuzzy_search from row i on: the position of best_match
\* (0 for None) given the best so far; threshold and best_score are floats
RECURSIVE FuzzyScan(_, _, _, _, _, _, _)
FuzzyScan(df, track_name, artist_name, threshold, i, best_match, best_score) ==
    IF i > Len(df) THEN best_match
    ELSE LET combined_score == FuzzyScore(df[i], track_name, artist_name)
         IN IF FloatLess(best_score, combined_score)
               /\ ~FloatLess(combined_score, threshold)
            THEN FuzzyScan(df, track_name, artist_name, threshold, i + 1, i, combined_score)
            ELSE FuzzyScan(df, track_name, artist_name, threshold, i + 1,
                           best_match, best_score)

\* MusicRecommender._fuzzy_search: the position of the row found, 0 for
\* None.  The configuration holds fuzzy_threshold in units of 1/SCALE; the
\* code compares with the float of that decimal (0.8 by default).
_fuzzy_search(df, track_name, artist_name, cfg) ==
    FuzzyScan(df, track_name, artist_name, FloatDiv(cfg.fuzzy_threshold, SCALE),
              1, 0, FloatZero)

\* the first of a set of row positions (DataFrame.head(1), .values[0])
First(rows) == CHOOSE p \in rows : \A o \in rows : p <= o

\* mutant of FindByName: the narrowing by artist (lines 208-209) is left out
FindByNameNoNarrowing(df, track_name, artist_name, cfg) ==
    LET exact == {p \in 1..Len(df) : lower(df[p].track_name) = lower(track_name)}
    IN IF track_name = <<>> THEN 0
       ELSE IF exact # {} THEN First(exact)
       ELSE IF cfg.fuzzy_matching
            THEN _fuzzy_search(df, track_name, artist_name, cfg)
            ELSE 0

\* lines 201-220 of _find_track: resolution by name, exact and then fuzzy
FindByName(df, track_name, artist_name, cfg) ==
    LET exact == {p \in 1..Len(df) : lower(df[p].track_name) = lower(track_name)}
        narrowed == IF Cardinality(exact) > 1 /\ artist_name # <<>>
                    THEN {p \in exact : lower(df[p].artist_name) = lower(artist_name)}
                    ELSE exact
    IN IF track_name = <<>> THEN 0
       ELSE IF exact # {} /\ narrowed # {} THEN First(narrowed)
       ELSE IF cfg.fuzzy_matching
            THEN _fuzzy_search(df, track_name, artist_name, cfg)
            ELSE 0

\* mutant of _find_track: an identifier that matches no row falls back to
\* the first row of the frame
FindTrackFallsBack(df, track_id, track_name, artist_name, cfg) ==
    IF track_id # "" /\ Len(df) > 0
    THEN (IF \E p \in 1..Len(df) : df[p].track_id = track_id
          THEN First({p \in 1..Len(df) : df[p].track_id = track_id})
          ELSE 1)
    ELSE FindByName(df, track_name, artist_name, cfg)

\* mutant of _find_track: the search by name comes before the search by
\* identifier
FindTrackNameFirst(df, track_id, track_name, artist_name, cfg) ==
    LET by_id == {p \in 1..Len(df) : df[p].track_id = track_id}
        by_name == FindByName(df, track_name, artist_name, cfg)
    IN IF by_name # 0 THEN by_name
       ELSE IF track_id # "" /\ by_id # {} THEN First(by_id)
       ELSE 0

\* MusicRecommender._find_track: the position (1-based) of the first row of
\* the frame it returns, 0 for None.  None and the empty string are both
\* falsy and are both "" (track_id) or <<>> (names)
_find_track(df, track_id, track_name, artist_name, cfg) ==
    LET by_id == {p \in 1..Len(df) : df[p].track_id = track_id}
    IN IF track_id # "" /\ by_id # {} THEN First(by_id)
       ELSE FindByName(df, track_name, artist_name, cfg)

\* the stages of _find_track that are evaluated, in order: the lookup by
\* identifier (line 197), the exact match on the name (204), the narrowing
\* by artist (209) and the fuzzy search (216)
find_track_stages(df, track_id, track_name, artist_name, cfg) ==
    LET by_id == {p \in 1..Len(df) : df[p].track_id = track_id}
        exact == {p \in 1..Len(df) : lower(df[p].track_name) = lower(track_name)}
        narrows == Cardinality(exact) > 1 /\ artist_name # <<>>
        narrowed == IF narrows
                    THEN {p \in exact : lower(df[p].artist_name) = lower(artist_name)}
                    ELSE exact
        id_stage == IF track_id # "" THEN <<"id">> ELSE <<>>
        name_stages ==
            IF track_name = <<>> THEN <<>>
            ELSE <<"exact">>
                 \o (IF exact # {} /\ narrows THEN <<"narrow">> ELSE <<>>)
                 \o (IF narrowed = {} /\ cfg.fuzzy_matching THEN <<"fuzzy">> ELSE <<>>)
    IN IF track_id # "" /\ by_id # {} THEN id_stage
       ELSE id_stage \o name_stages

EmbeddingTypes == {"text", "feature", "combined"}

\* row[f'{embedding_type}_embedding']
EmbeddingOf(row, embedding_type) ==
    CASE embedding_type = "text"     -> row.text_embedding
      [] embedding_type = "feature"  -> row.feature_embedding
      [] embedding_type = "combined" -> row.combined_embedding

\* mutant of QueryIndex: the query is taken to sit in the first row
QueryIndexFirstRow(df, query_track_id) == 0

\* df[df['track_id'] == query_track_id].index[0]: the 0-based position of
\* the first row carrying the query's identifier (recommender.py:132)
QueryIndex(df, query_track_id) ==
    First({p \in 1..Len(df) : df[p].track_id = query_track_id}) - 1

\* the least j with n * 2^j >= d (0 < n < d)
RECURSIVE ScaleUp(_, _)
ScaleUp(n, d) == IF n >= d THEN 0 ELSE 1 + ScaleUp(2 * n, d)

\* the greatest t with d * 2^t <= n (n >= d > 0)
RECURSIVE ScaleDown(_, _)
ScaleDown(n, d) == IF n \div 2 < d THEN 0 ELSE 1 + ScaleDown(n \div 2, d)

\* x * 2^t modulo m
RECURSIVE TimesPow2Mod(_, _, _)
TimesPow2Mod(x, t, m) ==
    IF t = 0 THEN x % m ELSE TimesPow2Mod(2 * (x % m), t - 1, m)

\* the sign of float(n / d) - n / d for integers n >= 0 and d > 0: whether
\* the float that stands for the fraction lies below it (-1), on it (0) or
\* above it (1).  With e the exponent that brings n * 2^e / d to
\* MantissaBits bits, the mantissa is that quotient rounded to nearest,
\* ties to even.
FloatError(n, d) ==
    IF n = 0 THEN 0
    ELSE LET e == IF n < d THEN (MantissaBits - 1) + ScaleUp(n, d)
                  ELSE (MantissaBits - 1) - ScaleDown(n, d)
             rem2 == TimesPow2Mod(n, e, 2 * d)
             rem == rem2 % d
         IN IF rem = 0 THEN 0
            ELSE IF 2 * rem < d THEN -1
            ELSE IF 2 * rem > d THEN 1
            ELSE IF rem2 >= d THEN 1 ELSE -1

\* round(similarity_score, 4): scores are in units of 1/SCORE_ONE and the
\* float rounded is the one nearest to the score.  Python rounds the exact
\* binary value of the float: off the half-way point of the fourth decimal
\* that is the nearest multiple; on it, the side the float's own error puts
\* it, and the even digit when the float is the half-way point exactly.
Round4(score) ==
    LET step == SCORE_ONE \div 10000
        q == Abs(score) \div step
        r == Abs(score) % step
        error == FloatError(Abs(score), SCORE_ONE)
        up == IF 2 * r # step THEN 2 * r > step
              ELSE error > 0 \/ (error = 0 /\ q % 2 = 1)
        rounded == (IF up THEN q + 1 ELSE q) * step
    IN IF score = NegInf THEN NegInf
       ELSE IF score < 0 THEN -rounded ELSE rounded

\* the loop of get_recommendations (lines 145-170) from entry i of
\* similar_indices on, recommendations being the list built so far
RECURSIVE Assemble(_, _, _, _, _, _, _, _)
Assemble(df, similar_indices, i, query_index, query_artist_name, k, cfg, recommendations) ==
    IF i > Len(similar_indices) THEN recommendations
    ELSE LET idx == similar_indices[i].index
             similarity_score == similar_indices[i].score
             track == df[idx + 1]
             skip == \/ idx = query_index
                     \/ cfg.exclude_same_artist /\ track.artist_name = query_artist_name
                     \/ similarity_score < cfg.min_similarity_threshold
             appended == Append(recommendations,
                                [track_id |-> track.track_id,
                                 track_name |-> track.track_name,
                                 artist_name |-> track.artist_name,
                                 similarity_score |-> Round4(similarity_score)])
         IN IF skip
            THEN Assemble(df, similar_indices, i + 1, query_index, query_artist_name,
                          k, cfg, recommendations)
            ELSE IF Len(appended) >= k THEN appended
            ELSE Assemble(df, similar_indices, i + 1, query_index, query_artist_name,
                          k, cfg, appended)

\* the outcome of a call: a returned list, or an exception raised at a
\* named place
Returned(value) == [kind |-> "returned", at |-> "", value |-> value]
Raised(at) == [kind |-> "raised", at |-> at, value |-> <<>>]

\* the width np.vstack (line 129) sees in one entry of the column: a vector
\* is a row of its length, None becomes a 1 x 1 array of objects
RowWidth(v) == IF v = NoneVec THEN 1 ELSE Len(v)

\* np.vstack(df[embedding_col].values) passes when all the entries have one
\* width: a column of vectors, or a column where every vector is missing
VStackable(df, embedding_type) ==
    \A p, q \in 1..Len(df) :
        RowWidth(EmbeddingOf(df[p], embedding_type))
            = RowWidth(EmbeddingOf(df[q], embedding_type))

\* mutant of get_recommendations_from: the whole table is ranked and the
\* loop goes on past the k + 1 nearest until k entries pass the filters
get_recommendations_refilled(df, query_row, args, cfg, m, stable) ==
    IF query_row = 0
    THEN [outcome |-> Returned(<<>>), stages |-> <<"resolve">>]
    ELSE IF args.embedding_type \notin EmbeddingTypes
    THEN [outcome |-> Returned(<<>>), stages |-> <<"resolve", "type">>]
    ELSE IF ~VStackable(df, args.embedding_type)
    THEN [outcome |-> Raised("similarity"), stages |-> <<"resolve", "type", "matrix">>]
    ELSE IF \A p \in 1..Len(df) : EmbeddingOf(df[p], args.embedding_type) = NoneVec
    THEN [outcome |-> Raised("similarity"),
          stages |-> <<"resolve", "type", "matrix", "search">>]
    ELSE LET query_embedding == EmbeddingOf(df[query_row], args.embedding_type)
             embeddings_matrix ==
                 [p \in 1..Len(df) |-> EmbeddingOf(df[p], args.embedding_type)]
             query_index == QueryIndex(df, df[query_row].track_id)
             similar_indices ==
                 find_similar(m, stable, query_embedding, embeddings_matrix,
                              Len(df), {query_index})
         IN [outcome |-> Returned(Assemble(df, similar_indices, 1, query_index,
                                           df[query_row].artist_name, args.k, cfg,
                                           <<>>)),
             stages |-> <<"resolve", "type", "matrix", "search", "assemble">>]

\* MusicRecommender.get_recommendations from line 109 on, query_row being
\* the row that line 108 resolved (0 when none) and df the frame of lines
\* 102-105: its outcome and the stages it went through, in the order of the
\* code: track resolution (line 108), the embedding-type test (122), the
\* candidate matrix (129), the similarity search (135) and the assembly of
\* the list (145-170).  np.vstack raises over a column where some vectors
\* are missing and others are not; over a column where every vector is
\* missing it builds an array of None and it is the similarity call that
\* raises.  A stage that raises is the last one listed.
get_recommendations_from(df, query_row, args, cfg, m, stable) ==
    IF query_row = 0
    THEN [outcome |-> Returned(<<>>), stages |-> <<"resolve">>]
    ELSE IF args.embedding_type \notin EmbeddingTypes
    THEN [outcome |-> Returned(<<>>), stages |-> <<"resolve", "type">>]
    ELSE IF ~VStackable(df, args.embedding_type)
    THEN [outcome |-> Raised("similarity"), stages |-> <<"resolve", "type", "matrix">>]
    ELSE IF \A p \in 1..Len(df) : EmbeddingOf(df[p], args.embedding_type) = NoneVec
    THEN [outcome |-> Raised("similarity"),
          stages |-> <<"resolve", "type", "matrix", "search">>]
    ELSE LET query_embedding == EmbeddingOf(df[query_row], args.embedding_type)
             embeddings_matrix ==
                 [p \in 1..Len(df) |-> EmbeddingOf(df[p], args.embedding_type)]
             query_index == QueryIndex(df, df[query_row].track_id)
             similar_indices ==
                 find_similar(m, stable, query_embedding, embeddings_matrix,
                              args.k + 1, {query_index})
         IN [outcome |-> Returned(Assemble(df, similar_indices, 1, query_index,
                                           df[query_row].artist_name, args.k, cfg,
                                           <<>>)),
             stages |-> <<"resolve", "type", "matrix", "search", "assemble">>]

\* MusicRecommender.get_recommendations from line 107 on: the track is
\* resolved (line 108) and the rest of the call works on that row
get_recommendations_run(df, args, cfg, m, stable) ==
    get_recommendations_from(df, _find_track(df, args.track_id, args.track_name, args.artist_name, cfg), args, cfg, m, stable)

\* what the call returns or raises
get_recommendations(df, args, cfg, m, stable) ==
    get_recommendations_run(df, args, cfg, m, stable).outcome

\* the stages the call goes through
get_recommendations_stages(df, args, cfg, m, stable) ==
    get_recommendations_run(df, args, cfg, m, stable).stages

\* mutant of CacheMiss: a snapshot older than cache_ttl counts as absent
CacheMissOrExpired(c, elapsed) == ~c.loaded \/ elapsed >= 1

\* the test of line 102, self._embeddings_cache is None: the time elapsed
\* since the snapshot was taken is not consulted, cache_ttl is read nowhere
CacheMiss(c, elapsed) == ~c.loaded

\* ----------------------------------------------- inputs of find_similar
E1   == <<SCALE, 0>>
E2   == <<0, SCALE>>
V34  == <<(3 * SCALE) \div 5, (4 * SCALE) \div 5>>
Zero == <<0, 0>>

CandidateVectors == {E1, E2, V34}
QueryVectors == {E1, V34, Zero}

RECURSIVE SeqsUpTo(_, _)
SeqsUpTo(S, n) ==
    IF n = 0 THEN {<<>>}
    ELSE LET shorter == SeqsUpTo(S, n - 1)
         IN shorter \cup {Append(s, x) : s \in {t \in shorter : Len(t) = n - 1}, x \in S}

Matrices == {M \in SeqsUpTo(CandidateVectors, MaxN) : Len(M) >= 1}

\* exclude_indices: a list of at most two positions, one of them possibly
\* past the last row.  The loop's assignments are idempotent, so the list is
\* kept as the set of its elements; None and [] take the same branch of
\* line 65 and are both the empty set
ExcludeLists == {S \in SUBSET (0..MaxN) : Cardinality(S) <= 2}

\* ------------------------------------------- inputs of combine_embeddings
F2    == <<0, SCALE, 0>>
F304  == <<(3 * SCALE) \div 5, 0, (4 * SCALE) \div 5>>
FZero == <<0, 0, 0>>

TextVectors == {E1, V34, Zero}
FeatureVectors == {F2, F304, FZero}

\* weights 0, 0.3, 0.7 and 1, in units of 1/SCALE
Weights == {0, (3 * SCALE) \div 10, (7 * SCALE) \div 10, SCALE}

CombRows == [text_embedding : TextVectors \cup {NoneVec},
             feature_embedding : FeatureVectors \cup {NoneVec}]

CombFrames == {df \in SeqsUpTo(CombRows, MaxRows) : Len(df) >= 1}

\* ------------------------------------------------------------ idle parts
SimIdle ==
    /\ metric = "cosine"
    /\ tiesStable = TRUE
    /\ simCall = [query |-> Zero, matrix |-> <<>>, k |-> 0, exclude |-> {}]
    /\ simPc = "idle"
    /\ simResult = <<>>

CombIdle ==
    /\ combCfg = [text_weight |-> 0, features_weight |-> 0, normalize |-> FALSE]
    /\ combDf = <<>>
    /\ combPc = "idle"
    /\ combOut = <<>>

NoCall == [track_id |-> "", track_name |-> <<>>, artist_name |-> <<>>,
           k |-> 0, embedding_type |-> "combined"]

RecIdle ==
    /\ table = <<>>
    /\ cache = [loaded |-> FALSE, df |-> <<>>]
    /\ recCfg = [exclude_same_artist |-> FALSE, min_similarity_threshold |-> 0,
                 fuzzy_matching |-> TRUE, fuzzy_threshold |-> (8 * SCALE) \div 10,
                 cache_embeddings |-> TRUE]
    /\ recCall = NoCall
    /\ recDf = <<>>
    /\ recOutcome = [kind |-> "none", at |-> "", value |-> <<>>]
    /\ recSteps = <<>>
    /\ recFetched = FALSE
    /\ age = 0

NormIdle ==
    /\ normArg = <<>>
    /\ normPc = "idle"
    /\ normOut = <<>>

\* an engine built with the metric in use; no call observed
EngIdle ==
    /\ engRequested = metric
    /\ engState = "ready"
    /\ engOut = [op |-> "none", kind |-> "none", value |-> <<>>]

FindIdle ==
    /\ findDf = <<>>
    /\ findCfg = [fuzzy_matching |-> TRUE, fuzzy_threshold |-> (8 * SCALE) \div 10]
    /\ findCall = [track_id |-> "", track_name |-> <<>>, artist_name |-> <<>>]
    /\ findPc = "idle"
    /\ findRow = 0
    /\ findStages = <<>>

TextIdle ==
    /\ txtTexts = <<>>
    /\ txtBatchSize = 1
    /\ txtI = 0
    /\ txtAll = <<>>
    /\ txtErrors = 0
    /\ txtFailed = {}
    /\ txtCalls = <<>>
    /\ txtPc = "idle"

\* an argument left at None; 0 is falsy as well, `arg or default` takes the
\* default for both (retry.py:27-28)
NoneArg == 1 - 1

NoRetryResult == [attempts |-> 0, waits |-> <<>>, outcome |-> [kind |-> "none", value |-> "none"]]

RetryIdle ==
    /\ rtMax = NoneArg
    /\ rtBackoff = NoneArg
    /\ rtScript = <<>>
    /\ rtPc = "idle"
    /\ rtResult = NoRetryResult

\* an empty dict
EmptyDict == [key \in {} |-> 0]

SearchIdle ==
    /\ smClient = "lastfm"
    /\ smEnabled = FALSE
    /\ smTracks = <<>>
    /\ smI = 0
    /\ smResults = EmptyDict
    /\ smPc = "idle"
    /\ smLookups = <<>>
    /\ smFailed = {}
    /\ smStored = {}

\* no row: the summary of a response that carries none
NoRow == [track_id |-> "", track_name |-> <<>>, artist_name |-> <<>>]

NoReq ==
    [route |-> "none", track_id |-> "", track_name |-> <<>>, artist_name |-> <<>>,
     k |-> 0, embedding_type |-> "combined", text |-> <<>>, vector |-> <<>>,
     offset |-> 0, track_ids |-> <<>>, min_similarity |-> 0, service |-> "ok"]

NoResp == [status |-> "none", query |-> NoRow, results |-> <<>>, total |-> 0]

NoSnap == [loaded |-> FALSE, df |-> <<>>]

ApiIdle ==
    /\ apiBoot = 0
    /\ recommender_instance = FALSE
    /\ apiReq = NoReq
    /\ apiResp = NoResp
    /\ apiSnap = NoSnap

FeatIdle ==
    /\ featInplace = TRUE
    /\ featX = <<>>
    /\ featCol = 0
    /\ featPc = "idle"
    /\ featHanded = <<>>

NoFrame == [columns |-> {}, rows |-> <<>>]

PipeIdle ==
    /\ pipeRaw = NoFrame
    /\ pipeDf = NoFrame
    /\ pipePc = "idle"
    /\ pipePassed = "none"
    /\ pipeLog = <<>>
    /\ pipeReturn = "none"

RaceIdle ==
    /\ raceCall = [track_id |-> "", track_name |-> <<>>, artist_name |-> <<>>,
                   k |-> 0, embedding_type |-> "combined"]
    /\ racePc = "idle"
    /\ raceMiss = FALSE
    /\ raceDf = <<>>
    /\ raceRow = 0
    /\ raceMatrix = <<>>
    /\ raceIndex = 0
    /\ raceSimilar = <<>>
    /\ raceOutcome = [kind |-> "none", at |-> "", value |-> <<>>]
    /\ loadPc = "idle"
    /\ loadDf = <<>>

MoreIdle == FeatIdle /\ PipeIdle /\ RaceIdle

ExtIdle == RetryIdle /\ SearchIdle /\ ApiIdle /\ MoreIdle

AuxIdle == NormIdle /\ EngIdle /\ FindIdle /\ TextIdle /\ ExtIdle

\* The recommender's configuration is RECOMMENDATION_CONFIG
\* (src/recommender/config.py:22-39), which holds no fuzzy_matching and no
\* fuzzy_threshold key: config.get supplies True and 0.8.

\* ------------------------------------------ specification: find_similar
SimInit ==
    /\ CombIdle
    /\ RecIdle
    /\ metric \in Metrics
    /\ tiesStable \in BOOLEAN
    /\ simCall \in [query : QueryVectors, matrix : Matrices,
                    k : 0..MaxK, exclude : ExcludeLists]
    /\ simPc = "call"
    /\ simResult = <<>>
    /\ AuxIdle

FindSimilar ==
    /\ simPc = "call"
    /\ simResult' = find_similar(metric, tiesStable, simCall.query, simCall.matrix,
                                 simCall.k, simCall.exclude)
    /\ simPc' = "done"
    /\ UNCHANGED <<metric, tiesStable, simCall, combVars, recVars, auxVars>>

SimNext == FindSimilar

SpecSim == SimInit /\ [][SimNext]_vars

\* -------------------------------------- specification: SimilarityEngine
\* the names a caller may hand to SimilarityEngine(metric=...)
MetricNames == Metrics \cup {"manhattan", "Cosine", ""}

NoEngOut == [op |-> "none", kind |-> "none", value |-> <<>>]

EngInit ==
    /\ CombIdle
    /\ RecIdle
    /\ NormIdle
    /\ FindIdle
    /\ TextIdle
    /\ ExtIdle
    /\ metric = "unset"
    /\ tiesStable \in BOOLEAN
    /\ simCall = [query |-> Zero, matrix |-> <<>>, k |-> 0, exclude |-> {}]
    /\ simPc = "idle"
    /\ simResult = <<>>
    /\ engRequested \in MetricNames
    /\ engState = "none"
    /\ engOut = NoEngOut

\* SimilarityEngine(metric=engRequested)
Construct ==
    /\ engState = "none"
    /\ engState' = SimilarityEngine(engRequested).state
    /\ metric' = SimilarityEngine(engRequested).metric
    /\ UNCHANGED <<tiesStable, simCall, simPc, simResult, engRequested, engOut>>
    /\ UNCHANGED <<combVars, recVars, normVars, findVars, textVars, extVars>>

\* a find_similar call on the engine built
EngFindSimilar ==
    \E q \in QueryVectors, M \in Matrices, k \in 0..MaxK :
        /\ engState = "ready"
        /\ engOut = NoEngOut
        /\ engOut' = find_similar_call(metric, tiesStable, q, M, k, {})
        /\ UNCHANGED <<simVars, engRequested, engState>>
        /\ UNCHANGED <<combVars, recVars, normVars, findVars, textVars, extVars>>

\* a compute_similarity call on the engine built
EngComputeSimilarity ==
    \E a \in QueryVectors, b \in CandidateVectors :
        /\ engState = "ready"
        /\ engOut = NoEngOut
        /\ engOut' = compute_similarity(metric, a, b)
        /\ UNCHANGED <<simVars, engRequested, engState>>
        /\ UNCHANGED <<combVars, recVars, normVars, findVars, textVars, extVars>>

\* a batch_similarity call on the engine built
EngBatchSimilarity ==
    \E Q \in {<<q>> : q \in QueryVectors} \cup {<<E1, V34>>}, T \in Matrices :
        /\ engState = "ready"
        /\ engOut = NoEngOut
        /\ engOut' = batch_similarity(metric, Q, T)
        /\ UNCHANGED <<simVars, engRequested, engState>>
        /\ UNCHANGED <<combVars, recVars, normVars, findVars, textVars, extVars>>

\* the caller takes the outcome; the engine is ready for the next call
EngDeliver ==
    /\ engOut # NoEngOut
    /\ engOut' = NoEngOut
    /\ UNCHANGED <<simVars, engRequested, engState>>
    /\ UNCHANGED <<combVars, recVars, normVars, findVars, textVars, extVars>>

EngNext ==
    Construct \/ EngFindSimilar \/ EngComputeSimilarity \/ EngBatchSimilarity \/ EngDeliver

SpecEng == EngInit /\ [][EngNext]_vars

\* ------------------------------------ specification: combine_embeddings
CombInit ==
    /\ SimIdle
    /\ RecIdle
    /\ AuxIdle
    /\ combCfg \in [text_weight : Weights, features_weight : Weights,
                     normalize : BOOLEAN]
    /\ combDf \in CombFrames
    /\ combPc = "call"
    /\ combOut = <<>>

CombineEmbeddings ==
    /\ combPc = "call"
    /\ combOut' = combine_embeddings(combDf, combCfg)
    /\ combPc' = "done"
    /\ UNCHANGED <<combCfg, combDf, simVars, recVars, auxVars>>

CombNext == CombineEmbeddings

SpecComb == CombInit /\ [][CombNext]_vars

\* ------------------------------------ specification: _normalize_vector
\* components -1, 0, 0.6 and 2
NormComponents == {-SCALE, 0, (3 * SCALE) \div 5, 2 * SCALE}

NormVectors == {v \in SeqsUpTo(NormComponents, MaxDim) : Len(v) >= 1}

NormInit ==
    /\ SimIdle
    /\ RecIdle
    /\ EngIdle
    /\ FindIdle
    /\ TextIdle
    /\ ExtIdle
    /\ combCfg \in [text_weight : {(7 * SCALE) \div 10},
                     features_weight : {(3 * SCALE) \div 10}, normalize : BOOLEAN]
    /\ combDf = <<>>
    /\ combPc = "idle"
    /\ combOut = <<>>
    /\ normArg \in NormVectors
    /\ normPc = "call"
    /\ normOut = <<>>

\* a call of EmbeddingCombiner._normalize_vector: norm and vector / norm
\* build new arrays, nothing is assigned to the argument or to self
NormalizeVector ==
    /\ normPc = "call"
    /\ normOut' = _normalize_vector(normArg)
    /\ normPc' = "done"
    /\ UNCHANGED <<normArg, simVars, combVars, recVars, engVars, findVars, textVars, extVars>>

NormNext == NormalizeVector

SpecNorm == NormInit /\ [][NormNext]_vars

\* ------------------------------------------- inputs of get_recommendations
Str_ab  == <<"a", "b">>
Str_abc == <<"a", "b", "c">>
Str_AB  == <<"A", "B">>
Str_cd  == <<"c", "d">>
Str_x   == <<"x">>
Str_y   == <<"y">>

\* the tracks the embeddings pipeline may have processed: name, artist and
\* the two vectors it generated (a failed text batch leaves a missing one)
TrackPool ==
    { [track_name |-> Str_ab,  artist_name |-> Str_x,
       text_embedding |-> E1,  feature_embedding |-> F2],
      [track_name |-> Str_abc, artist_name |-> Str_x,
       text_embedding |-> E1,  feature_embedding |-> F2],
      [track_name |-> Str_AB,  artist_name |-> Str_y,
       text_embedding |-> V34, feature_embedding |-> F304],
      [track_name |-> Str_cd,  artist_name |-> Str_y,
       text_embedding |-> NoneVec, feature_embedding |-> F2],
      [track_name |-> Str_cd,  artist_name |-> Str_x,
       text_embedding |-> Zero, feature_embedding |-> FZero] }

\* identifiers are unique within a table (spec section 3): row p carries
\* the p-th of these
TrackIds == <<"t1", "t2", "t3", "t4", "t5">>
AbsentId == "tX"

\* the combiner settings of src/embeddings/config.py
PipelineCombinerCfg ==
    [text_weight |-> (7 * SCALE) \div 10, features_weight |-> (3 * SCALE) \div 10,
     normalize |-> TRUE]

\* the table the embeddings pipeline writes for a sequence of tracks: each
\* row with its identifier and the combined_embedding of combine_embeddings
PipelineTable(tracks) ==
    LET combined == combine_embeddings(tracks, PipelineCombinerCfg)
    IN [p \in 1..Len(tracks) |->
           [track_id |-> TrackIds[p],
            track_name |-> tracks[p].track_name,
            artist_name |-> tracks[p].artist_name,
            text_embedding |-> tracks[p].text_embedding,
            feature_embedding |-> tracks[p].feature_embedding,
            combined_embedding |-> combined[p]]]

Tables == {PipelineTable(tracks) : tracks \in SeqsUpTo(TrackPool, MaxTracks)}

RecKs == 0..MaxRecK

\* the calls observed: by identifier (present or absent) with every
\* embedding type, by name with and without an artist, by an absent
\* identifier together with a name, and with no argument at all
RecCalls ==
    [track_id : {TrackIds[p] : p \in 1..MaxTracks} \cup {AbsentId},
     track_name : {<<>>}, artist_name : {<<>>}, k : RecKs,
     embedding_type : EmbeddingTypes \cup {"lyrics"}]
    \cup [track_id : {"", AbsentId}, track_name : {Str_ab},
          artist_name : {<<>>, Str_y}, k : RecKs, embedding_type : {"combined"}]
    \cup {NoCall}

\* Config.RETRY_MAX_ATTEMPTS and Config.RETRY_BACKOFF_SECONDS, the defaults
\* of the retry policy (src/ingestion/config.py:51-52)
Config == [RETRY_MAX_ATTEMPTS |-> 3, RETRY_BACKOFF_SECONDS |-> 5]

\* ---------------------------- specification: _generate_embeddings_batch
TextPool == {"a", "b", "c"}

\* the vector the embedding service gives a text (np.array(emb.values))
EmbedText(text) ==
    CASE text = "a" -> E1
      [] text = "b" -> E2
      [] text = "c" -> V34

\* self.model.get_embeddings(batch) when the call succeeds, turned into
\* batch_embeddings (lines 150-155): one vector per text of the batch
get_embeddings(batch) == [j \in 1..Len(batch) |-> EmbedText(batch[j])]

\* mutant of Placeholders: one None for the whole batch
OnePlaceholder(batch) == <<NoneVec>>

\* [None] * len(batch) (line 162)
Placeholders(batch) == [j \in 1..Len(batch) |-> NoneVec]

\* texts[i:i + self.batch_size] (line 143), i 0-based
BatchAt(texts, i, batch_size) == SubSeq(texts, i + 1, Min(i + batch_size, Len(texts)))

TextInit ==
    /\ SimIdle
    /\ CombIdle
    /\ RecIdle
    /\ NormIdle
    /\ EngIdle
    /\ FindIdle
    /\ ExtIdle
    /\ txtTexts \in SeqsUpTo(TextPool, MaxTexts)
    /\ txtBatchSize \in 1..MaxBatchSize
    /\ txtI = 0
    /\ txtAll = <<>>
    /\ txtErrors = 0
    /\ txtFailed = {}
    /\ txtCalls = <<>>
    /\ txtPc = "loop"

\* one pass of the loop of _generate_embeddings_batch, the call of the
\* embedding service succeeding (lines 143-157)
BatchSucceeds ==
    /\ txtPc = "loop"
    /\ txtI < Len(txtTexts)
    /\ txtAll' = txtAll \o get_embeddings(BatchAt(txtTexts, txtI, txtBatchSize))
    /\ txtCalls' = Append(txtCalls, txtI)
    /\ txtI' = txtI + txtBatchSize
    /\ UNCHANGED <<txtTexts, txtBatchSize, txtErrors, txtFailed, txtPc>>
    /\ UNCHANGED <<simVars, combVars, recVars, normVars, engVars, findVars, extVars>>

\* one pass of the loop, the call raising: the except branch (lines 159-163)
BatchFails ==
    /\ txtPc = "loop"
    /\ txtI < Len(txtTexts)
    /\ txtAll' = txtAll \o Placeholders(BatchAt(txtTexts, txtI, txtBatchSize))
    /\ txtErrors' = txtErrors + Len(BatchAt(txtTexts, txtI, txtBatchSize))
    /\ txtFailed' = txtFailed \cup {txtI}
    /\ txtCalls' = Append(txtCalls, txtI)
    /\ txtI' = txtI + txtBatchSize
    /\ UNCHANGED <<txtTexts, txtBatchSize, txtPc>>
    /\ UNCHANGED <<simVars, combVars, recVars, normVars, engVars, findVars, extVars>>

\* the range is exhausted: return all_embeddings (line 165)
TextReturn ==
    /\ txtPc = "loop"
    /\ txtI >= Len(txtTexts)
    /\ txtPc' = "done"
    /\ UNCHANGED <<txtTexts, txtBatchSize, txtI, txtAll, txtErrors, txtFailed, txtCalls>>
    /\ UNCHANGED <<simVars, combVars, recVars, normVars, engVars, findVars, extVars>>

TextNext == BatchSucceeds \/ BatchFails \/ TextReturn

SpecText == TextInit /\ [][TextNext]_vars

\* ------------------------------------ specification: retry_on_api_error
\* the exception classes of retry_if_exception_type (retry.py:37)
TransientErrors == {"ConnectionError", "TimeoutError"}

\* what one invocation of the wrapped function does
Returns(value) == [kind |-> "return", value |-> value]
Raises(exception) == [kind |-> "raise", value |-> exception]

\* max_attempts or Config.RETRY_MAX_ATTEMPTS (retry.py:27-28)
OrDefault(arg, default) == IF arg = NoneArg THEN default ELSE arg

RECURSIVE Pow2(_)
Pow2(n) == IF n <= 0 THEN 1 ELSE 2 * Pow2(n - 1)

\* stop_after_attempt(max_attempts): stop once attempt_number reaches it
stop_after_attempt(max_attempt_number, attempt_number) ==
    attempt_number >= max_attempt_number

\* mutant of wait_exponential: no upper limit
wait_exponential_unbounded(multiplier, min, max, attempt_number) ==
    Max2(Max2(0, min), multiplier * Pow2(attempt_number - 1))

\* wait_exponential(multiplier, min, max) after attempt attempt_number:
\* multiplier * 2 ** (attempt_number - 1), kept within min and max
wait_exponential(multiplier, min, max, attempt_number) ==
    Max2(Max2(0, min), Min(multiplier * Pow2(attempt_number - 1), max))

\* retry_if_exception_type((ConnectionError, TimeoutError))
retry_if_exception_type(outcome) ==
    outcome.kind = "raise" /\ outcome.value \in TransientErrors

\* the policy retry_on_api_error builds (retry.py:27-40)
retry_on_api_error(max_attempts, backoff_seconds) ==
    LET attempts == OrDefault(max_attempts, Config.RETRY_MAX_ATTEMPTS)
        backoff == OrDefault(backoff_seconds, Config.RETRY_BACKOFF_SECONDS)
    IN [stop |-> attempts, multiplier |-> backoff, min |-> backoff,
        max |-> backoff * 10, reraise |-> TRUE]

\* a call of the decorated function from its attempt_number-th invocation
\* on: the function is invoked; an outcome the retry predicate rejects is
\* handed to the caller; otherwise the call stops when the attempts are
\* used up, re-raising the exception of that attempt (reraise=True), or
\* sleeps the wait and invokes again.  script[n] is what the n-th
\* invocation does.
RECURSIVE RetryLoop(_, _, _, _)
RetryLoop(policy, script, attempt_number, waits) ==
    LET outcome == script[attempt_number]
    IN IF ~retry_if_exception_type(outcome)
       THEN [attempts |-> attempt_number, waits |-> waits, outcome |-> outcome]
       ELSE IF stop_after_attempt(policy.stop, attempt_number)
       THEN [attempts |-> attempt_number, waits |-> waits,
             outcome |-> IF policy.reraise THEN outcome ELSE Raises("RetryError")]
       ELSE RetryLoop(policy, script, attempt_number + 1,
                      Append(waits, wait_exponential(policy.multiplier, policy.min,
                                                     policy.max, attempt_number)))

\* what an arbitrary wrapped function may do at one invocation
FnOutcomes ==
    {Returns("value"), Raises("ConnectionError"), Raises("TimeoutError"),
     Raises("ValueError")}

\* the invocations of one call are scripted up to the attempt ceiling
ScriptLen(max_attempts) == OrDefault(max_attempts, Config.RETRY_MAX_ATTEMPTS)

RetryInit ==
    /\ SimIdle
    /\ CombIdle
    /\ RecIdle
    /\ NormIdle
    /\ EngIdle
    /\ FindIdle
    /\ TextIdle
    /\ SearchIdle
    /\ ApiIdle
    /\ MoreIdle
    /\ rtMax \in {NoneArg} \cup 1..MaxAttempts
    /\ rtBackoff \in {NoneArg} \cup 1..MaxBackoff
    /\ rtScript = <<>>
    /\ rtPc = "idle"
    /\ rtResult = NoRetryResult

\* a caller calls the function decorated with
\* @retry_on_api_error(rtMax, rtBackoff)
CallWrapped ==
    \E script \in [1..ScriptLen(rtMax) -> FnOutcomes] :
        /\ rtPc = "idle"
        /\ rtScript' = script
        /\ rtResult' = RetryLoop(retry_on_api_error(rtMax, rtBackoff), script, 1, <<>>)
        /\ rtPc' = "done"
        /\ UNCHANGED <<rtMax, rtBackoff, searchVars, apiVars, moreVars>>
        /\ UNCHANGED <<simVars, combVars, recVars, normVars, engVars, findVars, textVars>>

\* the caller takes the value or the exception; the next call starts afresh
RetryDeliver ==
    /\ rtPc = "done"
    /\ rtPc' = "idle"
    /\ rtScript' = <<>>
    /\ rtResult' = NoRetryResult
    /\ UNCHANGED <<rtMax, rtBackoff, searchVars, apiVars, moreVars>>
    /\ UNCHANGED <<simVars, combVars, recVars, normVars, engVars, findVars, textVars>>

RetryNext == CallWrapped \/ RetryDeliver

SpecRetry == RetryInit /\ [][RetryNext]_vars

\* ------------------------------------------ specification: search_multiple
\* the exceptions a call of the Last.fm or Genius API may raise
ApiFailures == {"WSError", "ConnectionError", "TimeoutError"}

\* what the API does during one invocation of the decorated method:
\* LastFMClient.get_track_tags calls network.get_track and
\* track.get_top_tags (get_similar and the statistics calls are taken to
\* succeed), GeniusClient.get_lyrics_and_info calls genius.search_song,
\* which may find the song, return None or raise
ApiResponses(client) ==
    IF client = "lastfm"
    THEN [get_track : {"ok"} \cup ApiFailures, get_top_tags : {"ok", "ConnectionError"}]
    ELSE [search_song : {"found", "none", "ConnectionError", "TimeoutError"}]

\* the None a decorated method returns, and the dict it returns otherwise
NoInfo == [found |-> FALSE, tags |-> FALSE]
Info(tags) == [found |-> TRUE, tags |-> tags]

\* LastFMClient.get_track_tags (lines 60-130), the client enabled: an
\* exception of get_track is caught at 125-130 and gives None; an exception
\* of get_top_tags is caught at 81 and leaves tags_data empty
get_track_tags(api) ==
    IF api.get_track # "ok" THEN Returns(NoInfo)
    ELSE Returns(Info(api.get_top_tags = "ok"))

\* GeniusClient.get_lyrics_and_info (lines 62-98), the client enabled
get_lyrics_and_info(api) ==
    IF api.search_song = "found" THEN Returns(Info(TRUE)) ELSE Returns(NoInfo)

\* the decorated method of the client
LookupBody(client, api) ==
    IF client = "lastfm" THEN get_track_tags(api) ELSE get_lyrics_and_info(api)

\* a call of the API raised during this invocation of the method
ApiRaised(client, api) ==
    IF client = "lastfm"
    THEN api.get_track # "ok" \/ api.get_top_tags # "ok"
    ELSE api.search_song \in ApiFailures

\* results[track_id] = info
DictSet(dict, key, value) ==
    [k \in DOMAIN dict \cup {key} |-> IF k = key THEN value ELSE dict[k]]

\* the dicts of the list handed to search_multiple: '' stands for a missing
\* or empty name or artist
SearchTrackPool == [track_id : {"t1", "t2"}, name : {"", "n"}, artist : {"", "a"}]

SearchInit ==
    /\ SimIdle
    /\ CombIdle
    /\ RecIdle
    /\ NormIdle
    /\ EngIdle
    /\ FindIdle
    /\ TextIdle
    /\ RetryIdle
    /\ ApiIdle
    /\ MoreIdle
    /\ smClient \in {"lastfm", "genius"}
    /\ smEnabled \in BOOLEAN
    /\ smTracks \in SeqsUpTo(SearchTrackPool, MaxSearchTracks)
    /\ smI = 0
    /\ smResults = EmptyDict
    /\ smPc = "start"
    /\ smLookups = <<>>
    /\ smFailed = {}
    /\ smStored = {}

\* search_multiple up to the loop: a disabled client returns {} at once
\* (lines 181-186)
SearchStart ==
    /\ smPc = "start"
    /\ smPc' = IF smEnabled THEN "loop" ELSE "returned"
    /\ UNCHANGED <<smClient, smEnabled, smTracks, smI, smResults, smLookups, smFailed, smStored>>
    /\ UNCHANGED <<simVars, combVars, recVars, normVars, engVars, findVars, textVars, retryVars, apiVars, moreVars>>

\* one pass of the loop for a track without name or artist: continue
\* (lines 195-196)
SearchSkip ==
    /\ smPc = "loop"
    /\ smI < Len(smTracks)
    /\ smTracks[smI + 1].name = "" \/ smTracks[smI + 1].artist = ""
    /\ smI' = smI + 1
    /\ UNCHANGED <<smClient, smEnabled, smTracks, smResults, smPc, smLookups, smFailed, smStored>>
    /\ UNCHANGED <<simVars, combVars, recVars, normVars, engVars, findVars, textVars, retryVars, apiVars, moreVars>>

\* one pass of the loop for a track with name and artist (lines 201-204):
\* the method decorated with @retry_on_api_error() is called, api[n] being
\* what the API does during its n-th invocation; a truthy value is stored
\* under the track_id, an exception would leave search_multiple
SearchLookup ==
    \E api \in [1..ScriptLen(NoneArg) -> ApiResponses(smClient)] :
    \E call \in {RetryLoop(retry_on_api_error(NoneArg, NoneArg), [n \in 1..ScriptLen(NoneArg) |-> LookupBody(smClient, api[n])], 1, <<>>)} :
        /\ smPc = "loop"
        /\ smI < Len(smTracks)
        /\ smTracks[smI + 1].name # "" /\ smTracks[smI + 1].artist # ""
        /\ smLookups' = smLookups \o [n \in 1..call.attempts |-> smI + 1]
        /\ smFailed' = IF \E n \in 1..call.attempts : ApiRaised(smClient, api[n])
                       THEN smFailed \cup {smI + 1} ELSE smFailed
        /\ IF call.outcome.kind = "raise"
           THEN /\ smPc' = "raised"
                /\ UNCHANGED <<smI, smResults, smStored>>
           ELSE /\ smPc' = smPc
                /\ smI' = smI + 1
                /\ IF call.outcome.value.found
                   THEN /\ smResults' = DictSet(smResults, smTracks[smI + 1].track_id,
                                                call.outcome.value)
                        /\ smStored' = smStored \cup {smI + 1}
                   ELSE UNCHANGED <<smResults, smStored>>
        /\ UNCHANGED <<smClient, smEnabled, smTracks>>
        /\ UNCHANGED <<simVars, combVars, recVars, normVars, engVars, findVars, textVars, retryVars, apiVars, moreVars>>

\* after the loop (lines 206-209): the log line divides by total, which
\* raises ZeroDivisionError for an empty list; otherwise results is returned
SearchReturn ==
    /\ smPc = "loop"
    /\ smI >= Len(smTracks)
    /\ smPc' = IF Len(smTracks) = 0 THEN "raised" ELSE "returned"
    /\ UNCHANGED <<smClient, smEnabled, smTracks, smI, smResults, smLookups, smFailed, smStored>>
    /\ UNCHANGED <<simVars, combVars, recVars, normVars, engVars, findVars, textVars, retryVars, apiVars, moreVars>>

SearchNext == SearchStart \/ SearchSkip \/ SearchLookup \/ SearchReturn

SpecSearch == SearchInit /\ [][SearchNext]_vars

\* ------------------------------------------- specification: _find_track
\* the rows a frame may hold: name and artist, the identifier by position
FindRowPool == [track_name : {Str_ab, Str_abc, Str_AB, Str_cd},
                artist_name : {Str_x, Str_y}]
               \cup {[track_name |-> Str_abc, artist_name |-> Str_abc]}

FindFrame(rows) ==
    [p \in 1..Len(rows) |->
        [track_id |-> TrackIds[p], track_name |-> rows[p].track_name,
         artist_name |-> rows[p].artist_name]]

FindFrames == {FindFrame(rows) : rows \in SeqsUpTo(FindRowPool, MaxFindRows)}

\* the arguments of a resolution: no identifier, one of the first rows' or
\* one no row has; no name, a name some rows carry or one sharing no
\* character with any; no artist, one of the two, or one close to a row's
FindCalls == [track_id : {"", TrackIds[1], TrackIds[2], AbsentId},
              track_name : {<<>>, Str_ab, Str_x},
              artist_name : {<<>>, Str_x, Str_y, Str_ab}]

\* fuzzy matching as shipped (True, 0.8), switched off, and with the lowest
\* threshold of the range 0-1
FindCfgs == {[fuzzy_matching |-> TRUE, fuzzy_threshold |-> (8 * SCALE) \div 10],
             [fuzzy_matching |-> FALSE, fuzzy_threshold |-> (8 * SCALE) \div 10],
             [fuzzy_matching |-> TRUE, fuzzy_threshold |-> 0]}

FindInit ==
    /\ SimIdle
    /\ CombIdle
    /\ RecIdle
    /\ NormIdle
    /\ EngIdle
    /\ TextIdle
    /\ ExtIdle
    /\ findDf \in FindFrames
    /\ findCfg \in FindCfgs
    /\ findCall \in FindCalls
    /\ findPc = "call"
    /\ findRow = 0
    /\ findStages = <<>>

\* a call of MusicRecommender._find_track
FindTrack ==
    /\ findPc = "call"
    /\ findRow' = _find_track(findDf, findCall.track_id, findCall.track_name,
                              findCall.artist_name, findCfg)
    /\ findStages' = find_track_stages(findDf, findCall.track_id, findCall.track_name,
                                       findCall.artist_name, findCfg)
    /\ findPc' = "done"
    /\ UNCHANGED <<findDf, findCfg, findCall>>
    /\ UNCHANGED <<simVars, combVars, recVars, normVars, engVars, textVars, extVars>>

FindNext == FindTrack

SpecFind == FindInit /\ [][FindNext]_vars

\* ------------------------------------ specification: get_recommendations
RecInit ==
    /\ CombIdle
    /\ simCall = [query |-> Zero, matrix |-> <<>>, k |-> 0, exclude |-> {}]
    /\ simPc = "idle"
    /\ simResult = <<>>
    /\ metric \in Metrics
    /\ tiesStable \in BOOLEAN
    /\ table \in Tables
    /\ cache = [loaded |-> FALSE, df |-> <<>>]
    /\ recCfg \in [exclude_same_artist : BOOLEAN,
                   min_similarity_threshold : {0, SCORE_ONE \div 2},
                   fuzzy_matching : {TRUE},
                   fuzzy_threshold : {(8 * SCALE) \div 10},
                   cache_embeddings : BOOLEAN]
    /\ recCall = NoCall
    /\ recDf = <<>>
    /\ recOutcome = [kind |-> "none", at |-> "", value |-> <<>>]
    /\ recSteps = <<>>
    /\ recFetched = FALSE
    /\ age = 0
    /\ AuxIdle

NoOutcome == [kind |-> "none", at |-> "", value |-> <<>>]

\* MusicRecommender.load_data, the fetch succeeding (called at start-up,
\* recommender/api/app.py:78, or by hand to reload): the table is fetched
\* whatever the configuration and kept only when cache_embeddings is set
LoadData ==
    /\ recOutcome = NoOutcome
    /\ cache' = IF recCfg.cache_embeddings THEN [loaded |-> TRUE, df |-> table]
                 ELSE cache
    /\ recFetched' = TRUE
    /\ age' = IF recCfg.cache_embeddings THEN 0 ELSE age
    /\ UNCHANGED <<table, recCfg, recCall, recDf, recOutcome, recSteps>>
    /\ UNCHANGED <<simVars, combVars, auxVars>>

\* MusicRecommender.load_data when its query (line 69) raises: the
\* exception leaves load_data before line 74 and nothing is cached
LoadDataFails ==
    /\ recOutcome = NoOutcome
    /\ recFetched' = TRUE
    /\ UNCHANGED <<table, cache, age, recCfg, recCall, recDf, recOutcome, recSteps>>
    /\ UNCHANGED <<simVars, combVars, auxVars>>

\* MusicRecommender.get_recommendations, the whole call: the frame is the
\* cache, or a fresh load_data() when the cache is None
GetRecommendations ==
    \E args \in RecCalls :
        LET miss == CacheMiss(cache, age)
            df == IF miss THEN table ELSE cache.df
        IN /\ recOutcome = NoOutcome
           /\ recCall' = args
           /\ recDf' = df
           /\ cache' = IF miss /\ recCfg.cache_embeddings
                       THEN [loaded |-> TRUE, df |-> table]
                       ELSE cache
           /\ age' = IF miss /\ recCfg.cache_embeddings THEN 0 ELSE age
           /\ recFetched' = miss
           /\ \E query_row \in {_find_track(df, args.track_id, args.track_name,
                                               args.artist_name, recCfg)} :
              \E run \in {get_recommendations_from(df, query_row, args, recCfg,
                                                   metric, tiesStable)} :
                  /\ recOutcome' = run.outcome
                  /\ recSteps' = run.stages
           /\ UNCHANGED <<table, recCfg, simVars, combVars, auxVars>>

\* get_recommendations with an empty cache when the fetch of load_data
\* (line 69) fails: the exception leaves the call, nothing is cached
GetRecommendationsFetchFails ==
    \E args \in RecCalls :
        /\ recOutcome = NoOutcome
        /\ ~cache.loaded
        /\ recCall' = args
        /\ recDf' = <<>>
        /\ recOutcome' = Raised("load_data")
        /\ recSteps' = <<>>
        /\ recFetched' = TRUE
        /\ UNCHANGED <<table, cache, recCfg, age, simVars, combVars, auxVars>>

\* the caller takes the outcome; the recommender is ready for the next call
Deliver ==
    /\ recOutcome # NoOutcome
    /\ recCall' = NoCall
    /\ recDf' = <<>>
    /\ recOutcome' = NoOutcome
    /\ recSteps' = <<>>
    /\ recFetched' = FALSE
    /\ UNCHANGED <<table, cache, recCfg, age, simVars, combVars, auxVars>>

RecNext ==
    \/ LoadData \/ LoadDataFails \/ GetRecommendations
    \/ GetRecommendationsFetchFails \/ Deliver

SpecRec == RecInit /\ [][RecNext]_vars

\* ------------------------------ specification: the cache over time
\* the tracks of the source table while the cache is observed: the two
\* of the pool named "ab" and "AB", complete with their vectors
CacheTrackPool == {r \in TrackPool : r.track_name \in {Str_ab, Str_AB}}

CacheTables == {PipelineTable(tracks) : tracks \in SeqsUpTo(CacheTrackPool, MaxTracks)}

CacheInit ==
    /\ SimIdle
    /\ CombIdle
    /\ AuxIdle
    /\ table \in CacheTables
    /\ cache = [loaded |-> FALSE, df |-> <<>>]
    /\ recCfg \in [exclude_same_artist : {FALSE},
                   min_similarity_threshold : {0},
                   fuzzy_matching : {TRUE},
                   fuzzy_threshold : {(8 * SCALE) \div 10},
                   cache_embeddings : BOOLEAN]
    /\ recCall = NoCall
    /\ recDf = <<>>
    /\ recOutcome = NoOutcome
    /\ recSteps = <<>>
    /\ recFetched = FALSE
    /\ age = 0

\* one more cache_ttl period (RECOMMENDATION_CONFIG['cache_ttl'] seconds)
\* has passed since the snapshot was cached; no code runs
Tick ==
    /\ recOutcome = NoOutcome
    /\ cache.loaded
    /\ age < MaxAge
    /\ age' = age + 1
    /\ UNCHANGED <<table, cache, recCfg, recCall, recDf, recOutcome, recSteps, recFetched>>
    /\ UNCHANGED <<simVars, combVars, auxVars>>

\* the embeddings pipeline rewrites the source table (WRITE_TRUNCATE,
\* src/embeddings/main.py:_save_embeddings); the recommender is not told
SourceRewritten ==
    \E rewritten \in CacheTables \ {table} :
        /\ recOutcome = NoOutcome
        /\ table' = rewritten
        /\ UNCHANGED <<cache, recCfg, recCall, recDf, recOutcome, recSteps, recFetched, age>>
        /\ UNCHANGED <<simVars, combVars, auxVars>>

CacheNext == RecNext \/ Tick \/ SourceRewritten

SpecCache == CacheInit /\ [][CacheNext]_vars

\* ------------------------------ specification: the post-filters
NegE1 == <<-SCALE, 0>>
NegF2 == <<0, -SCALE, 0>>

\* tracks whose vectors point the same way, the opposite way and in
\* between, by two artists
FilterTrackPool ==
    { [track_name |-> Str_ab,  artist_name |-> Str_x,
       text_embedding |-> E1,  feature_embedding |-> F2],
      [track_name |-> Str_abc, artist_name |-> Str_x,
       text_embedding |-> NegE1, feature_embedding |-> NegF2],
      [track_name |-> Str_AB,  artist_name |-> Str_y,
       text_embedding |-> V34, feature_embedding |-> F304] }

FilterTables == {PipelineTable(tracks) : tracks \in SeqsUpTo(FilterTrackPool, MaxTracks)}

FilterInit ==
    /\ CombIdle
    /\ simCall = [query |-> Zero, matrix |-> <<>>, k |-> 0, exclude |-> {}]
    /\ simPc = "idle"
    /\ simResult = <<>>
    /\ metric \in Metrics
    /\ tiesStable \in BOOLEAN
    /\ table \in FilterTables
    /\ cache = [loaded |-> FALSE, df |-> <<>>]
    /\ recCfg \in [exclude_same_artist : BOOLEAN,
                   min_similarity_threshold : {0, SCORE_ONE \div 2},
                   fuzzy_matching : {TRUE},
                   fuzzy_threshold : {(8 * SCALE) \div 10},
                   cache_embeddings : {TRUE}]
    /\ recCall = NoCall
    /\ recDf = <<>>
    /\ recOutcome = NoOutcome
    /\ recSteps = <<>>
    /\ recFetched = FALSE
    /\ age = 0
    /\ AuxIdle

SpecFilter == FilterInit /\ [][RecNext]_vars

\* ------------------------- specification: the k + 1 candidates
\* a query's artist twice more, nearest to it, and another artist further
\* away; feature vectors follow the text vectors
TruncTrackPool ==
    { [track_name |-> Str_ab,  artist_name |-> Str_x,
       text_embedding |-> E1,  feature_embedding |-> F2],
      [track_name |-> Str_abc, artist_name |-> Str_x,
       text_embedding |-> V34, feature_embedding |-> F304],
      [track_name |-> Str_cd,  artist_name |-> Str_y,
       text_embedding |-> E2,  feature_embedding |-> F2] }

TruncTables == {PipelineTable(tracks) : tracks \in SeqsUpTo(TruncTrackPool, MaxCandidates)}

TruncInit ==
    /\ SimIdle
    /\ CombIdle
    /\ AuxIdle
    /\ table \in TruncTables
    /\ cache = [loaded |-> FALSE, df |-> <<>>]
    /\ recCfg \in [exclude_same_artist : BOOLEAN,
                   min_similarity_threshold : {0, SCORE_ONE \div 2},
                   fuzzy_matching : {TRUE},
                   fuzzy_threshold : {(8 * SCALE) \div 10},
                   cache_embeddings : {TRUE}]
    /\ recCall = NoCall
    /\ recDf = <<>>
    /\ recOutcome = NoOutcome
    /\ recSteps = <<>>
    /\ recFetched = FALSE
    /\ age = 0

SpecTrunc == TruncInit /\ [][RecNext]_vars

\* ----------------------- specification: FeatureEmbeddingsGenerator
\* a missing value (np.nan); the observed values are 2 and 6
NaN == -1

FeatureValues == {2, 6}

isna(v) == v = NaN

\* col.isna().any()
AnyNa(col) == \E i \in 1..Len(col) : isna(col[i])

\* the observed values of a column in ascending order
RECURSIVE SortedObserved(_, _)
SortedObserved(col, v) ==
    IF v > 6 THEN <<>>
    ELSE [i \in 1..Cardinality({p \in 1..Len(col) : col[p] = v}) |-> v]
         \o SortedObserved(col, v + 1)

\* Series.median(): missing values are skipped; the middle observed value,
\* or the mean of the two middle ones; nan when nothing is observed
median(col) ==
    LET obs == SortedObserved(col, 0)
        n == Len(obs)
    IN IF n = 0 THEN NaN
       ELSE IF n % 2 = 1 THEN obs[(n + 1) \div 2]
       ELSE (obs[n \div 2] + obs[n \div 2 + 1]) \div 2

\* Series.fillna(value): filling with nan leaves the missing values missing
fillna(col, value) == [i \in 1..Len(col) |-> IF isna(col[i]) THEN value ELSE col[i]]

\* one pass of the loop of _handle_missing_values (lines 140-145) over
\* column c.  X[col].fillna(median_val, inplace=True) acts on the Series
\* X[col] hands out: it writes into X where pandas lets that Series share
\* X's data, and leaves X as it was under copy-on-write.
handle_column(X, c, inplace) ==
    IF AnyNa(X[c]) /\ inplace
    THEN [X EXCEPT ![c] = fillna(X[c], median(X[c]))]
    ELSE X

FeatColumnsOf(n) == [1..n -> FeatureValues \cup {NaN}]

\* frames of 0..MaxFeatRows rows with 0..MaxFeatCols of the numeric features
FeatFrames ==
    UNION {[1..c -> FeatColumnsOf(n)] : c \in 0..MaxFeatCols, n \in 0..MaxFeatRows}

FeatInit ==
    /\ SimIdle
    /\ CombIdle
    /\ RecIdle
    /\ NormIdle
    /\ EngIdle
    /\ FindIdle
    /\ TextIdle
    /\ RetryIdle
    /\ SearchIdle
    /\ ApiIdle
    /\ PipeIdle
    /\ RaceIdle
    /\ featInplace \in BOOLEAN
    /\ featX \in FeatFrames
    /\ featCol = 0
    /\ featPc = "idle"
    /\ featHanded = <<>>

\* df.empty, or no numeric feature among df.columns
NothingToScale(X) == IF Len(X) = 0 THEN TRUE ELSE Len(X[1]) = 0

FeatFrame == <<simVars, combVars, recVars, normVars, engVars, findVars, textVars, retryVars, searchVars, apiVars, pipeVars, raceVars>>

\* generate_embeddings returns at once: the frame is empty (line 74) or
\* none of the numeric features is a column of it (line 84)
FeatReturnsEarly ==
    /\ featPc = "idle"
    /\ NothingToScale(featX)
    /\ featPc' = "done"
    /\ UNCHANGED <<featInplace, featX, featCol, featHanded, FeatFrame>>

\* X = df_embeddings[available_features].copy() (line 89)
FeatExtract ==
    /\ featPc = "idle"
    /\ ~NothingToScale(featX)
    /\ featPc' = "impute"
    /\ UNCHANGED <<featInplace, featX, featCol, featHanded, FeatFrame>>

\* the loop of _handle_missing_values reaches a column with a missing value
FeatFillColumn ==
    /\ featPc = "impute"
    /\ featCol < Len(featX)
    /\ AnyNa(featX[featCol + 1])
    /\ featX' = handle_column(featX, featCol + 1, featInplace)
    /\ featCol' = featCol + 1
    /\ UNCHANGED <<featInplace, featPc, featHanded, FeatFrame>>

\* ... a column without one
FeatKeepColumn ==
    /\ featPc = "impute"
    /\ featCol < Len(featX)
    /\ ~AnyNa(featX[featCol + 1])
    /\ featCol' = featCol + 1
    /\ UNCHANGED <<featInplace, featX, featPc, featHanded, FeatFrame>>

\* X_scaled = self.scaler.fit_transform(X) (line 96)
FeatFitScaler ==
    /\ featPc = "impute"
    /\ featCol = Len(featX)
    /\ featHanded' = featX
    /\ featPc' = "done"
    /\ UNCHANGED <<featInplace, featX, featCol, FeatFrame>>

FeatNext == FeatReturnsEarly \/ FeatExtract \/ FeatFillColumn \/ FeatKeepColumn \/ FeatFitScaler

SpecFeat == FeatInit /\ [][FeatNext]_vars

\* --------------------------- specification: TransformationPipeline
\* config.REQUIRED_FIELDS (transformation/config.py:91-95)
REQUIRED_FIELDS == <<"track_id", "track_name", "artist_name">>

\* config.QUALITY_THRESHOLDS: min_completeness 0.7 and max_duplicates 0.05,
\* in percent (transformation/config.py:108-112)
QUALITY_THRESHOLDS == [min_completeness |-> 70, max_duplicates |-> 5]

RequiredSet == {REQUIRED_FIELDS[i] : i \in 1..Len(REQUIRED_FIELDS)}

\* CLEANER_CONFIG['text'] (transformation/config.py:25-31); lowercase is
\* read by TextCleaner and used nowhere (text_cleaner.py:103-106)
CLEANER_CONFIG ==
    [text |-> [remove_special_chars |-> TRUE, remove_extra_spaces |-> TRUE,
               min_length |-> 1, max_length |-> 500]]

\* a cell of a text column is a string or holds nothing (None, NaN)
NoneText == <<"None">>

\* a name of max_length + 1 letters
LongName == [i \in 1..(CLEANER_CONFIG.text.max_length + 1) |-> "n"]

\* the cells of the raw table: identifiers, one of them missing; names
\* that are clean, missing, blank, of special characters only, that hold
\* blanks and special characters around letters, and that are too long
PipeRowPool ==
    [track_id : {<<"t", "1">>, <<"t", "2">>, NoneText},
     track_name : {<<"n">>, NoneText, <<" ">>, <<"#">>,
                   <<" ", "n", "\t", " ", "#", "n", " ">>, LongName},
     artist_name : {<<"a">>}]

\* the rows of df whose position is in keep, in order
RECURSIVE KeepRows(_, _, _)
KeepRows(rows, keep, p) ==
    IF p > Len(rows) THEN <<>>
    ELSE IF p \in keep THEN <<rows[p]>> \o KeepRows(rows, keep, p + 1)
    ELSE KeepRows(rows, keep, p + 1)

\* what SELECT * gives after _rename_columns (lines 106-154): every required
\* column, or all but one; a column the table lacks holds nothing
PipeRawFrames ==
    {f \in [columns : {RequiredSet, RequiredSet \ {"track_id"}, RequiredSet \ {"track_name"}},
            rows : SeqsUpTo(PipeRowPool, MaxPipeRows)] :
        \A p \in 1..Len(f.rows) : \A c \in RequiredSet \ f.columns :
            f.rows[p][c] = NoneText}

\* DataFrame.empty: no rows or no columns
Empty(df) == Len(df.rows) = 0 \/ df.columns = {}

\* str.strip()
RECURSIVE lstrip(_)
lstrip(text) ==
    IF text # <<>> /\ Head(text) \in WHITESPACE THEN lstrip(Tail(text)) ELSE text

RECURSIVE rstrip(_)
rstrip(text) ==
    IF text # <<>> /\ text[Len(text)] \in WHITESPACE
    THEN rstrip(SubSeq(text, 1, Len(text) - 1))
    ELSE text

strip(text) == rstrip(lstrip(text))

\* re.sub(r'\s+', ' ', text): every run of whitespace becomes one blank
CollapseSpaces(text) ==
    LET marked == [i \in 1..Len(text) |->
                      IF text[i] \notin WHITESPACE THEN text[i]
                      ELSE IF i > 1 /\ text[i - 1] \in WHITESPACE THEN "" ELSE " "]
    IN SelectSeq(marked, LAMBDA c : c # "")

\* the characters re.sub(r'[^a-zA-Z0-9\s\-\'\".,!?()]', '', text) keeps
KeptChars ==
    ASCIILETTERS \cup DIGITS \cup WHITESPACE
        \cup {"-", "'", "\"", ".", ",", "!", "?", "(", ")"}

\* TextCleaner._clean_text (text_cleaner.py:81-115)
_clean_text(text) ==
    IF text = NoneText THEN NoneText
    ELSE LET stripped == strip(text)
             spaced == IF CLEANER_CONFIG.text.remove_extra_spaces
                       THEN CollapseSpaces(stripped) ELSE stripped
             kept == IF CLEANER_CONFIG.text.remove_special_chars
                     THEN SelectSeq(spaced, LAMBDA c : c \in KeptChars) ELSE spaced
         IN IF \/ Len(kept) < CLEANER_CONFIG.text.min_length
               \/ Len(kept) > CLEANER_CONFIG.text.max_length
               \/ kept = <<>>
            THEN NoneText
            ELSE kept

\* TextCleaner.clean (text_cleaner.py:40-79): an empty frame is returned as
\* it is (52-54); otherwise the text columns the frame has are cleaned cell
\* by cell (60-65) and the rows without a track name or an artist name are
\* dropped, df.dropna(subset=['track_name', 'artist_name']) (68), which
\* raises KeyError when one of the two columns is absent
text_cleaner_clean(df) ==
    IF Empty(df) THEN [raised |-> FALSE, df |-> df]
    ELSE IF ~({"track_name", "artist_name"} \subseteq df.columns)
    THEN [raised |-> TRUE, df |-> df]
    ELSE LET text_fields == {"track_name", "artist_name", "album_name"} \cap df.columns
             df_clean == [p \in 1..Len(df.rows) |->
                             [f \in DOMAIN df.rows[p] |->
                                 IF f \in text_fields
                                 THEN _clean_text(df.rows[p][f])
                                 ELSE df.rows[p][f]]]
         IN [raised |-> FALSE,
             df |-> [df EXCEPT !.rows =
                        KeepRows(df_clean,
                                 {p \in 1..Len(df_clean) :
                                     /\ df_clean[p].track_name # NoneText
                                     /\ df_clean[p].artist_name # NoneText}, 1)]]

\* the columns NumericCleaner.clean works on (numeric_cleaner.py:58-75)
NumericFields == {"popularity", "duration_ms", "explicit", "lastfm"}

\* NumericCleaner.clean (numeric_cleaner.py:38-85) on a frame that has none
\* of those columns: a copy of the frame; frames that have one are outside
\* the model and the operator is undefined on them
numeric_cleaner_clean(df) ==
    CHOOSE df_clean \in {df} : df.columns \cap NumericFields = {}

\* _clean_data (lines 158-178): the text cleaner, then the numeric cleaner
_clean_data(df) ==
    LET text == text_cleaner_clean(df)
    IN IF text.raised THEN text
       ELSE [raised |-> FALSE, df |-> numeric_cleaner_clean(text.df)]

\* df[field].isna().sum()
NaCount(df, field) == Cardinality({p \in 1..Len(df.rows) : df.rows[p][field] = NoneText})

\* df.duplicated(subset=['track_id']).sum(): the rows whose track_id an
\* earlier row carries (missing identifiers count as equal)
Duplicates(df) ==
    Cardinality({p \in 1..Len(df.rows) :
                    \E q \in 1..(p - 1) : df.rows[q].track_id = df.rows[p].track_id})

\* _validate_quality (lines 198-241): "true" or "false" for what it
\* returns, "raised" when df.duplicated(subset=['track_id']) meets a frame
\* with rows and without that column (KeyError, line 233; of an empty frame
\* duplicated returns an empty series before it looks at subset).  On a
\* frame without rows both ratios are nan and neither comparison holds.
_validate_quality(df) ==
    LET missing_fields == RequiredSet \ df.columns
        incomplete == \E f \in RequiredSet \cap df.columns :
                          100 * (Len(df.rows) - NaCount(df, f))
                              < QUALITY_THRESHOLDS.min_completeness * Len(df.rows)
    IN IF "track_id" \notin df.columns /\ ~Empty(df) THEN "raised"
       ELSE IF \/ missing_fields # {}
               \/ incomplete
               \/ 100 * Duplicates(df) > QUALITY_THRESHOLDS.max_duplicates * Len(df.rows)
       THEN "false" ELSE "true"

PipeInit ==
    /\ SimIdle
    /\ CombIdle
    /\ RecIdle
    /\ NormIdle
    /\ EngIdle
    /\ FindIdle
    /\ TextIdle
    /\ RetryIdle
    /\ SearchIdle
    /\ ApiIdle
    /\ FeatIdle
    /\ RaceIdle
    /\ pipeRaw \in PipeRawFrames
    /\ pipeDf = NoFrame
    /\ pipePc = "idle"
    /\ pipePassed = "none"
    /\ pipeLog = <<>>
    /\ pipeReturn = "none"

PipeFrame == <<simVars, combVars, recVars, normVars, engVars, findVars, textVars, retryVars, searchVars, apiVars, featVars, raceVars>>

\* `return False`: run gives up, from line 71 or from the except of lines 102-104
PipeGivesUp ==
    /\ pipePc' = "done"
    /\ pipeReturn' = "false"

\* step 1, _extract_raw_data (lines 68-71): the query succeeds
PipeExtract ==
    /\ pipePc = "idle"
    /\ pipeDf' = pipeRaw
    /\ IF Len(pipeRaw.rows) = 0
       THEN PipeGivesUp
       ELSE pipePc' = "clean" /\ UNCHANGED pipeReturn
    /\ UNCHANGED <<pipeRaw, pipePassed, pipeLog, PipeFrame>>

\* step 1 when the query fails: _extract_raw_data returns None (lines 133-135)
PipeExtractFails ==
    /\ pipePc = "idle"
    /\ PipeGivesUp
    /\ UNCHANGED <<pipeRaw, pipeDf, pipePassed, pipeLog, PipeFrame>>

\* steps 2 and 3, _clean_data and _generate_features (lines 76-80); the
\* generated features are further columns, the required ones stay
PipeClean ==
    /\ pipePc = "clean"
    /\ \E cleaned \in {_clean_data(pipeDf)} :
          IF cleaned.raised
          THEN PipeGivesUp /\ UNCHANGED pipeDf
          ELSE pipeDf' = cleaned.df /\ pipePc' = "validate" /\ UNCHANGED pipeReturn
    /\ UNCHANGED <<pipeRaw, pipePassed, pipeLog, PipeFrame>>

\* step 4 (lines 84-85): a failed validation logs a warning
PipeValidate ==
    /\ pipePc = "validate"
    /\ \E passed \in {_validate_quality(pipeDf)} :
          /\ pipePassed' = passed
          /\ IF passed = "raised"
             THEN PipeGivesUp /\ UNCHANGED pipeLog
             ELSE /\ pipePc' = "save_clean"
                  /\ pipeLog' = IF passed = "false" THEN Append(pipeLog, "warning") ELSE pipeLog
                  /\ UNCHANGED pipeReturn
    /\ UNCHANGED <<pipeRaw, pipeDf, PipeFrame>>

\* step 5, _save_clean_data (lines 243-274): the load job is submitted; its
\* failure is logged and swallowed
PipeSaveClean ==
    /\ pipePc = "save_clean"
    /\ pipeLog' = Append(pipeLog, "write_clean")
    /\ pipePc' = "save_features"
    /\ UNCHANGED <<pipeRaw, pipeDf, pipePassed, pipeReturn, PipeFrame>>

\* step 5 when _ensure_dataset_exists cannot create the dataset (lines
\* 319-322): the exception leaves _save_clean_data and run returns False
PipeDatasetFails ==
    /\ pipePc = "save_clean"
    /\ pipeLog' = Append(pipeLog, "dataset_error")
    /\ PipeGivesUp
    /\ UNCHANGED <<pipeRaw, pipeDf, pipePassed, PipeFrame>>

\* step 6, _save_features (lines 276-305), the summary and `return True`
PipeSaveFeatures ==
    /\ pipePc = "save_features"
    /\ pipeLog' = Append(pipeLog, "write_features")
    /\ pipePc' = "done"
    /\ pipeReturn' = "true"
    /\ UNCHANGED <<pipeRaw, pipeDf, pipePassed, PipeFrame>>

PipeNext ==
    \/ PipeExtract \/ PipeExtractFails \/ PipeClean \/ PipeValidate
    \/ PipeSaveClean \/ PipeDatasetFails \/ PipeSaveFeatures

SpecPipe == PipeInit /\ [][PipeNext]_vars

\* --------------------------------------------- specification: the API process
\* mutant of StartupOrder: the instance is published before the data is loaded
StartupOrderSetFirst == <<"construct", "set_recommender", "load_data">>

\* the body of startup_event (app.py:61-82): the engine and the recommender
\* are built, load_data is called, set_recommender publishes the instance
StartupOrder == <<"construct", "load_data", "set_recommender">>

\* startup_event has raised (app.py:90-92)
StartupFailed == -1

\* mutant of load_or_cached: the data is fetched anew at every query
load_always(c, tbl, fetch_ok, cfg) ==
    IF ~fetch_ok
    THEN [df |-> <<>>, cache |-> c, fetched |-> TRUE, raised |-> TRUE]
    ELSE [df |-> tbl,
          cache |-> IF cfg.cache_embeddings THEN [loaded |-> TRUE, df |-> tbl] ELSE c,
          fetched |-> TRUE, raised |-> FALSE]

\* `if _embeddings_cache is None: df = load_data() else: df = _embeddings_cache`
\* (recommender.py:102-105, endpoints.py:67-70, 108-111, 270-273) with
\* load_data (recommender.py:69-78): the frame the caller works on, the
\* cache afterwards, whether load_data ran and whether its query raised
\* (fetch_ok false: the exception leaves load_data before line 74, nothing
\* is cached and the caller gets no frame)
load_or_cached(c, tbl, fetch_ok, cfg) ==
    IF c.loaded
    THEN [df |-> c.df, cache |-> c, fetched |-> FALSE, raised |-> FALSE]
    ELSE IF ~fetch_ok
    THEN [df |-> <<>>, cache |-> c, fetched |-> TRUE, raised |-> TRUE]
    ELSE [df |-> tbl,
          cache |-> IF cfg.cache_embeddings THEN [loaded |-> TRUE, df |-> tbl] ELSE c,
          fetched |-> TRUE, raised |-> FALSE]

\* the fields a response shows of a row
Summary(row) ==
    [track_id |-> row.track_id, track_name |-> row.track_name,
     artist_name |-> row.artist_name]

\* raise HTTPException(status_code=...)
Http(status) == [status |-> status, query |-> NoRow, results |-> <<>>, total |-> 0]

\* what a handler hands back: the response, the frame it worked on, the
\* cache afterwards and whether load_data ran
Handled(resp, snap, c, fetched) ==
    [resp |-> resp, snap |-> snap, cache |-> c, fetched |-> fetched]

\* a handler that answers before it looks at any data
Refused(status, c) == Handled(Http(status), NoSnap, c, FALSE)

Snap(df) == [loaded |-> TRUE, df |-> df]

\* health_check (endpoints.py:36-53)
health_check(instance, c) ==
    IF ~instance THEN Refused("503", c)
    ELSE Handled([status |-> "200", query |-> NoRow, results |-> <<>>,
                  total |-> IF c.loaded THEN Len(c.df) ELSE 0],
                 IF c.loaded THEN Snap(c.df) ELSE NoSnap, c, FALSE)

\* a handler whose load_data raised: the except branch answers 500
FetchFailed(c) == Handled(Http("500"), NoSnap, c, TRUE)

\* list_tracks (endpoints.py:56-94): the rows offset..offset+limit-1; an
\* exception of load_data is answered with 500 (92-94)
list_tracks(instance, c, tbl, fetch_ok, cfg, limit, offset) ==
    IF ~instance THEN Refused("503", c)
    ELSE IF load_or_cached(c, tbl, fetch_ok, cfg).raised THEN FetchFailed(c)
    ELSE LET got == load_or_cached(c, tbl, fetch_ok, cfg)
             tracks == SubSeq(got.df, Min(offset, Len(got.df)) + 1,
                              Min(offset + limit, Len(got.df)))
         IN Handled([status |-> "200", query |-> NoRow,
                     results |-> [i \in 1..Len(tracks) |-> Summary(tracks[i])],
                     total |-> Len(got.df)],
                    Snap(got.df), got.cache, got.fetched)

\* ---------------------------------------------- str.contains(pat): module re
\* Series.str.contains(pat, na=False) takes pat as a regular expression:
\* it is compiled with re.compile and a value is kept when re.search finds
\* a match in it.  What follows is the parser of re (re/_parser.py, Python
\* 3.11) and a matcher for what it yields.  Modelled are literals, ".",
\* "^", "$", "|", groups, (?:...), (?#...), look-ahead and look-behind
\* assertions, sets with ranges and classes, the escapes, and the greedy
\* and lazy repetitions, on strings of the characters known by code.  A
\* pattern with a group reference, a conditional, a named or atomic group,
\* a possessive repetition, inline flags, \N{...} or a repetition count of
\* 10^9 or more is outside the model: re_compile says so ("beyond") and
\* Contains has no value for it.
SPECIAL_CHARS == {".", "\\", "[", "{", "(", ")", "*", "+", "?", "^", "$", "|"}
REPEAT_CHARS == {"*", "+", "?", "{"}
FLAGS == {"i", "L", "m", "s", "x", "a", "t", "u"}

\* MAXREPEAT, the count of an unbounded repetition; the counts of the
\* model stay below it
MAXREPEAT == 10^9

\* the pattern as Tokenizer hands it out: a character, or a backslash with
\* the character after it (c is "" when the pattern ends with the backslash)
RECURSIVE Tokenizer(_, _)
Tokenizer(string, index) ==
    IF index > Len(string) THEN <<>>
    ELSE IF string[index] = "\\"
    THEN <<[esc |-> TRUE, c |-> IF index < Len(string) THEN string[index + 1] ELSE ""]>>
             \o Tokenizer(string, index + 2)
    ELSE <<[esc |-> FALSE, c |-> string[index]]>> \o Tokenizer(string, index + 1)

\* the parser's position and State: i is the index of source.next, groups
\* the number of groups opened, closed the groups closed
Source(i) == [i |-> i, groups |-> 0, closed |-> {}]

\* source.next, None being the token without character
Next(toks, src) == IF src.i > Len(toks) THEN [esc |-> FALSE, c |-> ""] ELSE toks[src.i]
AtEnd(toks, src) == src.i > Len(toks)
Is(tok, char) == ~tok.esc /\ tok.c = char
Skip(src, n) == [src EXCEPT !.i = @ + n]

\* what a parsing step yields: val and the position after it, or the
\* error it raised, or that the pattern is beyond the model
Parsed(val, src) == [st |-> "ok", val |-> val, src |-> src]
ReError == [st |-> "error", val |-> <<>>, src |-> Source(0)]
Beyond == [st |-> "beyond", val |-> <<>>, src |-> Source(0)]
OneMore(items, r) == IF r.st # "ok" THEN r ELSE Parsed(Append(items, r.val), r.src)

\* the nodes of a parsed pattern
Lit(c) == [op |-> "lit", c |-> c]
AnyChar == [op |-> "any"]
In(negate, items) == [op |-> "in", negate |-> negate, items |-> items]
At(where) == [op |-> "at", where |-> where]
Sequence(kids) == [op |-> "seq", kids |-> kids]
Branch(kids) == [op |-> "branch", kids |-> kids]
Subpattern(kid) == [op |-> "group", kid |-> kid]
Repeat(min, max, kid) == [op |-> "repeat", min |-> min, max |-> max, kid |-> kid]
AssertNode(dir, negate, back, kid) ==
    [op |-> "assert", dir |-> dir, negate |-> negate, back |-> back, kid |-> kid]

\* the members of a set
SetLit(code) == [kind |-> "lit", code |-> code]
SetRange(lo, hi) == [kind |-> "range", lo |-> lo, hi |-> hi]
Category(c) == [kind |-> "category", name |-> LowerChar(c), negate |-> c # LowerChar(c)]

\* source.getwhile(n, charset)
RECURSIVE getwhile(_, _, _, _)
getwhile(toks, i, n, charset) ==
    IF n = 0 \/ i > Len(toks) THEN <<>>
    ELSE IF toks[i].esc \/ toks[i].c \notin charset THEN <<>>
    ELSE <<toks[i].c>> \o getwhile(toks, i + 1, n - 1, charset)

DigitValue(c) ==
    IF ord(c) <= 57 THEN ord(c) - 48 ELSE IF ord(c) >= 97 THEN ord(c) - 87 ELSE ord(c) - 55

\* int(digits, base)
RECURSIVE IntOf(_, _)
IntOf(digits, base) ==
    IF digits = <<>> THEN 0
    ELSE IntOf(SubSeq(digits, 1, Len(digits) - 1), base) * base + DigitValue(digits[Len(digits)])

RECURSIVE Significant(_)
Significant(digits) ==
    IF digits # <<>> /\ digits[1] = "0" THEN Significant(Tail(digits)) ELSE digits

\* int(lo) of a repetition count: the number when it is below 10^9, -1 when
\* it reaches 4294967295 (OverflowError), -2 in between
Count(digits) ==
    LET sig == Significant(digits)
        high == IntOf(SubSeq(sig, 1, 9), 10)
    IN IF Len(sig) <= 9 THEN IntOf(sig, 10)
       ELSE IF Len(sig) > 10 \/ high > 429496729
                \/ (high = 429496729 /\ DigitValue(sig[10]) >= 5)
       THEN -1 ELSE -2

\* the codes of the escapes of ESCAPES (_parser.py:31-40)
EscapeCode(c) ==
    CASE c = "a" -> 7 [] c = "b" -> 8 [] c = "f" -> 12 [] c = "n" -> 10
      [] c = "r" -> 13 [] c = "t" -> 9 [] c = "v" -> 11 [] c = "\\" -> 92

\* \xhh, \uhhhh and \Uhhhhhhhh, c being the letter: the code
HexEscape(toks, src, c) ==
    With(IF c = "x" THEN 2 ELSE IF c = "u" THEN 4 ELSE 8, LAMBDA n :
    With(getwhile(toks, src.i, n, HEXDIGITS), LAMBDA h :
        IF Len(h) # n THEN ReError
        ELSE IF n = 8 /\ (h[1] # "0" \/ h[2] # "0" \/ IntOf(SubSeq(h, 3, 8), 16) > 1114111)
        THEN ReError
        ELSE Parsed(IntOf(SubSeq(h, Len(h) - Min(n, 6) + 1, Len(h)), 16), Skip(src, n))))

\* _class_escape (_parser.py:309-367): the member of a set that the escape
\* \c stands for; src is the position after the escape
_class_escape(toks, src, c) ==
    IF c \in {"a", "b", "f", "n", "r", "t", "v", "\\"} THEN Parsed(SetLit(EscapeCode(c)), src)
    ELSE IF c \in {"d", "D", "s", "S", "w", "W"} THEN Parsed(Category(c), src)
    ELSE IF c \in {"x", "u", "U"}
    THEN With(HexEscape(toks, src, c),
              LAMBDA h : IF h.st # "ok" THEN h ELSE Parsed(SetLit(h.val), h.src))
    ELSE IF c = "N" THEN Beyond
    ELSE IF c \in OCTDIGITS
    THEN With(getwhile(toks, src.i, 2, OCTDIGITS),
              LAMBDA o : With(IntOf(<<c>> \o o, 8),
                              LAMBDA code : IF code > 255 THEN ReError
                                            ELSE Parsed(SetLit(code), Skip(src, Len(o)))))
    ELSE IF c \in DIGITS \cup ASCIILETTERS THEN ReError
    ELSE Parsed(SetLit(ord(c)), src)

\* an escape that starts with a digit other than 0 (_parser.py:413-437):
\* three octal digits are a character, anything else a group reference
DigitEscape(toks, src, c) ==
    With(getwhile(toks, src.i, 1, DIGITS), LAMBDA second :
    With(IF second # <<>> /\ c \in OCTDIGITS /\ second[1] \in OCTDIGITS
         THEN getwhile(toks, src.i + 1, 1, OCTDIGITS) ELSE <<>>, LAMBDA third :
    With(IF third # <<>> THEN IntOf(<<c>> \o second \o third, 8)
         ELSE IntOf(<<c>> \o second, 10), LAMBDA number :
        IF third # <<>>
        THEN (IF number > 255 THEN ReError ELSE Parsed(Lit(chr(number)), Skip(src, 2)))
        ELSE IF number > src.groups \/ number \notin src.closed THEN ReError
        ELSE Beyond)))

\* _escape (_parser.py:369-444): the node that the escape \c stands for
\* outside a set
_escape(toks, src, c) ==
    IF c \in {"A", "Z", "b", "B"} THEN Parsed(At(c), src)
    ELSE IF c \in {"d", "D", "s", "S", "w", "W"} THEN Parsed(In(FALSE, <<Category(c)>>), src)
    ELSE IF c \in {"a", "f", "n", "r", "t", "v", "\\"} THEN Parsed(Lit(chr(EscapeCode(c))), src)
    ELSE IF c \in {"x", "u", "U"}
    THEN With(HexEscape(toks, src, c),
              LAMBDA h : IF h.st # "ok" THEN h ELSE Parsed(Lit(chr(h.val)), h.src))
    ELSE IF c = "N" THEN Beyond
    ELSE IF c = "0"
    THEN With(getwhile(toks, src.i, 2, OCTDIGITS),
              LAMBDA o : Parsed(Lit(chr(IntOf(o, 8))), Skip(src, Len(o))))
    ELSE IF c \in DIGITS THEN DigitEscape(toks, src, c)
    ELSE IF c \in ASCIILETTERS THEN ReError
    ELSE Parsed(Lit(c), src)

\* SubPattern.getwidth (_parser.py:174-221): <<lo, hi>>, the least and the
\* greatest length of a match, neither counted beyond MAXREPEAT
WidthTimes(w, n) ==
    IF w = 0 \/ n = 0 THEN 0
    ELSE IF w > MAXREPEAT \div n THEN MAXREPEAT ELSE Min(w * n, MAXREPEAT)

RECURSIVE getwidth(_)
getwidth(node) ==
    CASE node.op \in {"lit", "any", "in"} -> <<1, 1>>
      [] node.op \in {"at", "assert"} -> <<0, 0>>
      [] node.op = "group" -> getwidth(node.kid)
      [] node.op = "seq" ->
            IF node.kids = <<>> THEN <<0, 0>>
            ELSE With(<<getwidth(Head(node.kids)), getwidth(Sequence(Tail(node.kids)))>>,
                      LAMBDA w : <<Min(w[1][1] + w[2][1], MAXREPEAT),
                                   Min(w[1][2] + w[2][2], MAXREPEAT)>>)
      [] node.op = "branch" ->
            With({getwidth(node.kids[k]) : k \in 1..Len(node.kids)},
                 LAMBDA widths :
                     <<CHOOSE l \in {w[1] : w \in widths} : \A w \in widths : l <= w[1],
                       CHOOSE h \in {w[2] : w \in widths} : \A w \in widths : h >= w[2]>>)
      [] node.op = "repeat" ->
            With(getwidth(node.kid),
                 LAMBDA w : <<WidthTimes(w[1], node.min), WidthTimes(w[2], node.max)>>)

RECURSIVE _parse_sub(_, _, _)
RECURSIVE _parse(_, _, _)
RECURSIVE ParseSet(_, _, _, _)
RECURSIVE ParseGroup(_, _, _)

\* one end of a member of a set (_parser.py:571-574, 588-591): tok is the
\* token and after the position behind it
SetCode(toks, tok, after) ==
    IF tok.esc THEN _class_escape(toks, after, tok.c)
    ELSE Parsed(SetLit(ord(tok.c)), after)

\* the body of a set (_parser.py:557-612), src being the position of its
\* next member and items the members read so far
ParseSet(toks, src, negate, items) ==
    IF AtEnd(toks, src) THEN ReError
    ELSE IF Is(Next(toks, src), "]") /\ items # <<>>
    THEN Parsed(In(negate, items), Skip(src, 1))
    ELSE With(SetCode(toks, Next(toks, src), Skip(src, 1)), LAMBDA code1 :
        IF code1.st # "ok" THEN code1
        ELSE IF ~Is(Next(toks, code1.src), "-")
        THEN ParseSet(toks, code1.src, negate, Append(items, code1.val))
        ELSE IF AtEnd(toks, Skip(code1.src, 1)) THEN ReError
        ELSE IF Is(Next(toks, Skip(code1.src, 1)), "]")
        THEN Parsed(In(negate, items \o <<code1.val, SetLit(45)>>), Skip(code1.src, 2))
        ELSE With(SetCode(toks, Next(toks, Skip(code1.src, 1)), Skip(code1.src, 2)),
                  LAMBDA code2 :
            IF code2.st # "ok" THEN code2
            ELSE IF code1.val.kind # "lit" \/ code2.val.kind # "lit" THEN ReError
            ELSE IF code2.val.code < code1.val.code THEN ReError
            ELSE ParseSet(toks, code2.src, negate,
                          Append(items, SetRange(code1.val.code, code2.val.code)))))

\* the counts of a repetition that this starts at src (_parser.py:638-672):
\* [literal, min, max, after], after being the position behind it and
\* literal saying that the brace stands for itself
RepeatCounts(toks, src, this) ==
    With(getwhile(toks, src.i, Len(toks), DIGITS), LAMBDA lo :
    With(Is(Next(toks, Skip(src, Len(lo))), ","), LAMBDA comma :
    With(IF comma THEN getwhile(toks, src.i + Len(lo) + 1, Len(toks), DIGITS) ELSE lo,
         LAMBDA hi :
    With(Skip(src, Len(lo) + (IF comma THEN 1 + Len(hi) ELSE 0)), LAMBDA brace :
        [literal |-> this = "{" /\ (Is(Next(toks, src), "}") \/ ~Is(Next(toks, brace), "}")),
         min |-> IF this = "+" THEN 1
                 ELSE IF this = "{" /\ lo # <<>> THEN Count(lo) ELSE 0,
         max |-> IF this = "?" THEN 1
                 ELSE IF this = "{" /\ hi # <<>> THEN Count(hi) ELSE MAXREPEAT,
         after |-> IF this = "{" THEN Skip(brace, 1) ELSE src]))))

\* a repetition (_parser.py:638-702): this is its first character, src the
\* position after it and items what _parse has read so far
ParseRepeat(toks, src, this, items) ==
    With(RepeatCounts(toks, src, this), LAMBDA r :
        IF r.literal THEN Parsed(Append(items, Lit("{")), src)
        ELSE IF r.min = -1 \/ r.max = -1 THEN ReError
        ELSE IF r.min = -2 \/ r.max = -2 THEN Beyond
        ELSE IF r.max < r.min THEN ReError
        ELSE IF items = <<>> THEN ReError
        ELSE IF items[Len(items)].op \in {"at", "repeat"} THEN ReError
        ELSE IF Is(Next(toks, r.after), "+") THEN Beyond
        ELSE Parsed(SubSeq(items, 1, Len(items) - 1)
                        \o <<Repeat(r.min, r.max, items[Len(items)])>>,
                    IF Is(Next(toks, r.after), "?") THEN Skip(r.after, 1) ELSE r.after))

\* the position after the ")" that ends a comment (_parser.py:749-757)
RECURSIVE CommentEnd(_, _)
CommentEnd(toks, src) ==
    IF AtEnd(toks, src) THEN ReError
    ELSE IF Is(Next(toks, src), ")") THEN Parsed(<<>>, Skip(src, 1))
    ELSE CommentEnd(toks, Skip(src, 1))

\* what follows a "(" at src (_parser.py:706-770)
GroupKind(toks, src) ==
    With(<<Next(toks, Skip(src, 1)), Next(toks, Skip(src, 2))>>, LAMBDA t :
        IF ~Is(Next(toks, src), "?") THEN "capture"
        ELSE IF AtEnd(toks, Skip(src, 1)) \/ t[1].esc THEN "error"
        ELSE IF t[1].c = ":" THEN "plain"
        ELSE IF t[1].c = "#" THEN "comment"
        ELSE IF t[1].c = "=" THEN "ahead"
        ELSE IF t[1].c = "!" THEN "ahead_not"
        ELSE IF t[1].c = "<"
        THEN (IF Is(t[2], "=") THEN "behind"
              ELSE IF Is(t[2], "!") THEN "behind_not" ELSE "error")
        ELSE IF t[1].c \in {"P", "(", ">", "-"} \cup FLAGS THEN "beyond"
        ELSE "error")

\* the end of a group of the given kind whose inside has been parsed as p
\* (_parser.py:771-865, and the look-behind of variable width that the
\* compiler refuses, _compiler.py:151-153); group is its number when it
\* captures
GroupEnd(toks, kind, group, p, items) ==
    With(IF kind = "capture"
         THEN [Skip(p.src, 1) EXCEPT !.closed = @ \cup {group}]
         ELSE Skip(p.src, 1), LAMBDA closed :
        IF ~Is(Next(toks, p.src), ")") THEN ReError
        ELSE IF kind \in {"ahead", "ahead_not"}
        THEN Parsed(Append(items, AssertNode(1, kind = "ahead_not", 0, p.val)), closed)
        ELSE IF kind \in {"behind", "behind_not"}
        THEN With(getwidth(p.val), LAMBDA width :
                 IF width[1] >= MAXREPEAT THEN Beyond
                 ELSE IF width[1] # width[2] THEN ReError
                 ELSE Parsed(Append(items, AssertNode(-1, kind = "behind_not",
                                                      width[1], p.val)), closed))
        ELSE Parsed(Append(items, Subpattern(p.val)), closed))

\* a group or an assertion (_parser.py:706-865), src being the position
\* after its "(" and items what _parse has read so far
ParseGroup(toks, src, items) ==
    With(GroupKind(toks, src), LAMBDA kind :
        IF kind = "error" THEN ReError
        ELSE IF kind = "beyond" THEN Beyond
        ELSE IF kind = "comment"
        THEN With(CommentEnd(toks, Skip(src, 2)),
                  LAMBDA end : IF end.st # "ok" THEN ReError ELSE Parsed(items, end.src))
        ELSE With(_parse_sub(toks,
                             IF kind = "capture" THEN [src EXCEPT !.groups = @ + 1]
                             ELSE IF kind \in {"behind", "behind_not"} THEN Skip(src, 3)
                             ELSE Skip(src, 2),
                             1),
                  LAMBDA p : IF p.st # "ok" THEN p
                             ELSE GroupEnd(toks, kind, src.groups + 1, p, items)))

\* one item of a pattern that starts with the token this at src
\* (_parser.py:529-868): items with the item added, a repetition being
\* put around the last of them
ParseItem(toks, src, this, items) ==
    IF this.esc THEN OneMore(items, _escape(toks, Skip(src, 1), this.c))
    ELSE IF this.c \notin SPECIAL_CHARS
    THEN Parsed(Append(items, Lit(this.c)), Skip(src, 1))
    ELSE IF this.c = "["
    THEN With(Is(Next(toks, Skip(src, 1)), "^"),
              LAMBDA negate :
                  OneMore(items, ParseSet(toks, Skip(src, IF negate THEN 2 ELSE 1),
                                          negate, <<>>)))
    ELSE IF this.c \in REPEAT_CHARS THEN ParseRepeat(toks, Skip(src, 1), this.c, items)
    ELSE IF this.c = "." THEN Parsed(Append(items, AnyChar), Skip(src, 1))
    ELSE IF this.c = "(" THEN ParseGroup(toks, Skip(src, 1), items)
    ELSE Parsed(Append(items, At(this.c)), Skip(src, 1))

\* _parse (_parser.py:509-878): the items up to the next "|" or ")" or the
\* end of the pattern, after the items read so far
_parse(toks, src, items) ==
    With(Next(toks, src), LAMBDA this :
        IF AtEnd(toks, src) \/ Is(this, "|") \/ Is(this, ")") THEN Parsed(items, src)
        ELSE With(ParseItem(toks, src, this, items),
                  LAMBDA step : IF step.st # "ok" THEN step
                                ELSE _parse(toks, step.src, step.val)))

\* _parse_sub (_parser.py:449-507): an alternation a|b|c, the alternatives
\* before this one being given; its rewriting of the branches (common
\* prefix, set of single characters) changes no match
RECURSIVE Alternatives(_, _, _)
Alternatives(toks, src, branches) ==
    With(_parse(toks, src, <<>>), LAMBDA item :
        IF item.st # "ok" THEN item
        ELSE IF Is(Next(toks, item.src), "|")
        THEN Alternatives(toks, Skip(item.src, 1), Append(branches, Sequence(item.val)))
        ELSE Parsed(IF branches = <<>> THEN Sequence(item.val)
                    ELSE Branch(Append(branches, Sequence(item.val))), item.src))

_parse_sub(toks, src, nested) == Alternatives(toks, src, <<>>)

\* re.compile(pattern): parse (_parser.py:972-997) and the one error of
\* the compiler, the look-behind of variable width, which GroupEnd raises
re_compile(pattern) ==
    With(Tokenizer(pattern, 1), LAMBDA toks :
        IF \E t \in 1..Len(toks) : toks[t].esc /\ toks[t].c = "" THEN ReError
        ELSE With(_parse_sub(toks, Source(1), 0),
                  LAMBDA p : IF p.st = "ok" /\ ~AtEnd(toks, p.src) THEN ReError ELSE p))

\* the categories \d, \s and \w on a character code
InCategory(name, code) ==
    CASE name = "d" -> code \in 48..57
      [] name = "s" -> code \in {32} \cup (9..13)
      [] name = "w" -> code \in (48..57) \cup (65..90) \cup (97..122) \cup {95}

\* char is a member of the set
InSet(node, char) ==
    With(ord(char), LAMBDA code :
        (\E k \in 1..Len(node.items) :
            CASE node.items[k].kind = "lit" -> code = node.items[k].code
              [] node.items[k].kind = "range" ->
                    node.items[k].lo <= code /\ code <= node.items[k].hi
              [] node.items[k].kind = "category" ->
                    InCategory(node.items[k].name, code) # node.items[k].negate)
            # node.negate)

\* the character before offset p of string is a word character
WordBefore(string, p) == p > 0 /\ InCategory("w", ord(string[p]))

\* the position p of string satisfies "^", "$", \A, \Z, \b or \B
AtHolds(where, string, p) ==
    CASE where \in {"^", "A"} -> p = 0
      [] where = "Z" -> p = Len(string)
      [] where = "$" -> \/ p = Len(string)
                        \/ p = Len(string) - 1 /\ string[Len(string)] = "\n"
      [] where \in {"b", "B"} ->
            /\ string # <<>>
            /\ With(<<WordBefore(string, p), p < Len(string) /\ WordBefore(string, p + 1)>>,
                    LAMBDA word : (word[1] # word[2]) = (where = "b"))

RECURSIVE Ends(_, _, _)
RECURSIVE SeqEnds(_, _, _, _)
RECURSIVE Times(_, _, _, _)
RECURSIVE UpTo(_, _, _, _, _)

\* the offsets at which a match of node that starts at one of from can end
StepAll(node, string, from) == UNION {Ends(node, string, q) : q \in from}

\* the same for the items kids[k], kids[k + 1], ... one after the other
SeqEnds(kids, k, string, from) ==
    IF k > Len(kids) \/ from = {} THEN from
    ELSE SeqEnds(kids, k + 1, string, StepAll(kids[k], string, from))

\* the same for exactly n repetitions of node
Times(node, string, from, n) ==
    IF n = 0 \/ from = {} THEN from
    ELSE Times(node, string, StepAll(node, string, from), n - 1)

\* the same for up to n further repetitions, reached being what the
\* repetitions so far have reached and from what the last of them added
UpTo(node, string, from, reached, n) ==
    IF n = 0 THEN reached
    ELSE With(StepAll(node, string, from),
              LAMBDA next : IF next \subseteq reached THEN reached
                            ELSE UpTo(node, string, next, reached \cup next, n - 1))

\* the offsets at which a match of node that starts at offset p of string
\* can end; a repetition whose item matches the empty string gains nothing
\* from more than len(string) + 1 rounds
Ends(node, string, p) ==
    CASE node.op = "lit" ->
            IF p < Len(string) /\ string[p + 1] = node.c THEN {p + 1} ELSE {}
      [] node.op = "any" ->
            IF p < Len(string) /\ string[p + 1] # "\n" THEN {p + 1} ELSE {}
      [] node.op = "in" ->
            IF p < Len(string) /\ InSet(node, string[p + 1]) THEN {p + 1} ELSE {}
      [] node.op = "at" -> IF AtHolds(node.where, string, p) THEN {p} ELSE {}
      [] node.op = "seq" -> SeqEnds(node.kids, 1, string, {p})
      [] node.op = "branch" ->
            UNION {Ends(node.kids[k], string, p) : k \in 1..Len(node.kids)}
      [] node.op = "group" -> Ends(node.kid, string, p)
      [] node.op = "repeat" ->
            With(Times(node.kid, string, {p}, Min(node.min, Len(string) + 1)),
                 LAMBDA least : UpTo(node.kid, string, least, least, node.max - node.min))
      [] node.op = "assert" ->
            With(IF node.dir = 1 THEN Ends(node.kid, string, p) # {}
                 ELSE p >= node.back /\ Ends(node.kid, string, p - node.back) # {},
                 LAMBDA found : IF found # node.negate THEN {p} ELSE {})

\* Pattern.search(string) is not None
re_search(node, string) == \E p \in 0..Len(string) : Ends(node, string, p) # {}

\* Series.str.contains(pat, na=False) on the values of a column
\* (endpoints.py:116-117): whether re.compile raised and, if it did not,
\* which of the values match
str_contains(values, pat) ==
    With(re_compile(pat), LAMBDA compiled :
        IF compiled.st = "error" THEN [raised |-> TRUE, mask |-> <<>>]
        ELSE [raised |-> FALSE,
              mask |-> [p \in 1..Len(values) |->
                           re_search((CHOOSE r \in {compiled} : r.st = "ok").val,
                                     values[p])]])

\* the same on one value
Contains(str, pat) ==
    With(str_contains(<<str>>, pat),
         LAMBDA column : [raised |-> column.raised,
                          found |-> ~column.raised /\ column.mask[1]])

\* the rows of df (positions ascending) that satisfy the mask
RECURSIVE RowsWhere(_, _, _)
RowsWhere(df, mask, p) ==
    IF p > Len(df) THEN <<>>
    ELSE IF p \in mask THEN <<df[p]>> \o RowsWhere(df, mask, p + 1)
    ELSE RowsWhere(df, mask, p + 1)

\* search_tracks (endpoints.py:97-140): the lowered query is the pattern
\* both columns are searched with; an exception of load_data or of
\* re.compile is answered with 500 (138-140)
search_tracks(instance, c, tbl, fetch_ok, cfg, query, limit) ==
    IF ~instance THEN Refused("503", c)
    ELSE With(load_or_cached(c, tbl, fetch_ok, cfg), LAMBDA got :
        IF got.raised THEN FetchFailed(c)
        ELSE With(lower(query), LAMBDA query_lower :
             With(<<str_contains([p \in 1..Len(got.df) |-> lower(got.df[p].track_name)],
                                 query_lower),
                    str_contains([p \in 1..Len(got.df) |-> lower(got.df[p].artist_name)],
                                 query_lower)>>, LAMBDA column :
                 IF column[1].raised \/ column[2].raised
                 THEN Handled(Http("500"), Snap(got.df), got.cache, got.fetched)
                 ELSE With(Take(RowsWhere(got.df,
                                          {p \in 1..Len(got.df) :
                                              column[1].mask[p] \/ column[2].mask[p]}, 1),
                                limit), LAMBDA results_df :
                          Handled([status |-> "200", query |-> NoRow,
                                   results |-> [i \in 1..Len(results_df) |->
                                                   Summary(results_df[i])],
                                   total |-> Len(results_df)],
                                  Snap(got.df), got.cache, got.fetched)))))

\* the GET /recommend handler (endpoints.py:143-222), which POST /recommend
\* calls with the fields of the body (225-237).  got is what the service's
\* test of the cache yields, recommendations what the service call of lines
\* 178-184 returns or raises and query_result what the handler's own
\* _find_track of line 198 returns; the answers given before line 178 use
\* none of them.  After the service call the handler reads
\* _embeddings_cache again (193) and looks the query track up itself: by
\* track_id when one is given (195, IndexError when no row has it), else by
\* name (198); subscripting a None cache raises TypeError; both are caught
\* at 220 and answered with 500, as is an exception of the service's
\* load_data.
get_recommendations_handler(instance, c, got, recommendations, query_result, req) ==
    IF ~instance THEN Refused("503", c)
    ELSE IF req.track_id = "" /\ req.track_name = <<>> THEN Refused("400", c)
    ELSE IF req.embedding_type \notin EmbeddingTypes THEN Refused("400", c)
    ELSE IF got.raised THEN FetchFailed(c)
    ELSE LET df == got.cache.df
             by_id == {p \in 1..Len(df) : df[p].track_id = req.track_id}
             status ==
                 IF recommendations.kind = "raised" THEN "500"
                 ELSE IF recommendations.value = <<>> THEN "404"
                 ELSE IF ~got.cache.loaded THEN "500"
                 ELSE IF req.track_id # ""
                 THEN (IF by_id = {} THEN "500" ELSE "200")
                 ELSE (IF query_result = 0 THEN "404" ELSE "200")
         IN Handled(IF status # "200" THEN Http(status)
                    ELSE [status |-> "200",
                          query |-> Summary(df[IF req.track_id # "" THEN First(by_id)
                                               ELSE query_result]),
                          results |-> recommendations.value,
                          total |-> Len(recommendations.value)],
                    Snap(got.df), got.cache, got.fetched)

\* RECURSIVE helper of search_by_concept: the pairs whose score reaches
\* min_similarity (semantic_search.py:98-101)
RECURSIVE AtLeast(_, _, _)
AtLeast(results, min_similarity, i) ==
    IF i > Len(results) THEN <<>>
    ELSE IF results[i].score >= min_similarity
    THEN <<results[i]>> \o AtLeast(results, min_similarity, i + 1)
    ELSE AtLeast(results, min_similarity, i + 1)

\* min_similarity of /recommend/semantic, its default 0.3
DefaultMinSimilarity == (3 * SCORE_ONE) \div 10

\* what Vertex AI does for one call of /recommend/semantic: the model is
\* set up and embeds the query text, or vertexai.init or from_pretrained
\* raises in SemanticSearch.__init__ (semantic_search.py:33-34), or
\* get_embeddings raises in generate_query_embedding (52, re-raised at 63)
EmbeddingService == {"ok", "init_raises", "embed_raises"}

\* semantic_search (endpoints.py:240-315) with search_by_concept
\* (semantic_search.py:65-105); vector is the embedding the service gives
\* for the query text.  The searcher is constructed first (264), before the
\* cache is looked at; then the data is taken (270-273), the matrix is
\* stacked (276: np.vstack raises when a text_embedding is missing or there
\* is no row) and only then the query is embedded (semantic_search.py:87).
\* Every exception is answered with 500 (313-315).
semantic_search(instance, c, tbl, fetch_ok, cfg, m, stable, service, vector, k, min_similarity) ==
    IF ~instance THEN Refused("503", c)
    ELSE IF service = "init_raises" THEN Refused("500", c)
    ELSE IF load_or_cached(c, tbl, fetch_ok, cfg).raised THEN FetchFailed(c)
    ELSE LET got == load_or_cached(c, tbl, fetch_ok, cfg)
             df == got.df
             missing == \E p \in 1..Len(df) : df[p].text_embedding = NoneVec
             embeddings_matrix == [p \in 1..Len(df) |-> df[p].text_embedding]
             results == AtLeast(find_similar(m, stable, vector, embeddings_matrix, k, {}),
                                min_similarity, 1)
         IN IF missing \/ Len(df) = 0 \/ service = "embed_raises"
            THEN Handled(Http("500"), Snap(df), got.cache, got.fetched)
            ELSE IF results = <<>>
            THEN Handled(Http("404"), Snap(df), got.cache, got.fetched)
            ELSE Handled([status |-> "200", query |-> NoRow,
                          results |-> [i \in 1..Len(results) |->
                                          [track_id |-> df[results[i].index + 1].track_id,
                                           track_name |-> df[results[i].index + 1].track_name,
                                           artist_name |-> df[results[i].index + 1].artist_name,
                                           similarity_score |-> Round4(results[i].score)]],
                          total |-> Len(results)],
                         Snap(df), got.cache, got.fetched)

\* one pass of the loop of get_batch_recommendations (recommender.py:
\* 294-300): a whole get_recommendations call for one identifier, with its
\* own test of the cache and its own load_data
batch_iteration(c, tbl, fetch_ok, track_id, k, embedding_type, cfg, m, stable) ==
    LET got == load_or_cached(c, tbl, fetch_ok, cfg)
    IN [got |-> got,
        outcome |-> IF got.raised THEN Raised("load_data")
                    ELSE get_recommendations(got.df,
                             [track_id |-> track_id, track_name |-> <<>>,
                              artist_name |-> <<>>, k |-> k,
                              embedding_type |-> embedding_type], cfg, m, stable)]

\* the keys of the dict that `results[track_id] = ...` builds from
\* track_ids: each identifier once, in the order of its first occurrence
RECURSIVE DictKeys(_, _)
DictKeys(track_ids, i) ==
    IF i > Len(track_ids) THEN <<>>
    ELSE IF \E o \in 1..(i - 1) : track_ids[o] = track_ids[i]
    THEN DictKeys(track_ids, i + 1)
    ELSE <<track_ids[i]>> \o DictKeys(track_ids, i + 1)

\* MusicRecommender.get_batch_recommendations (recommender.py:275-302),
\* outcomes being those of its get_recommendations calls, one per
\* position of track_ids up to the first that raised: an exception of one
\* of them leaves the call, otherwise the dict is returned, in which an
\* identifier given more than once has one entry, that of its last call
\* (line 300 overwrites)
get_batch_recommendations(track_ids, outcomes) ==
    IF \E i \in 1..Len(outcomes) : outcomes[i].kind = "raised"
    THEN [status |-> "raised", query |-> NoRow, results |-> <<>>, total |-> 0]
    ELSE LET keys == DictKeys(track_ids, 1)
             last(id) == CHOOSE i \in 1..Len(track_ids) :
                             /\ track_ids[i] = id
                             /\ \A o \in (i + 1)..Len(track_ids) : track_ids[o] # id
         IN [status |-> "returned", query |-> NoRow,
             results |-> [n \in 1..Len(keys) |->
                             [track_id |-> keys[n],
                              recommendations |-> outcomes[last(keys[n])].value]],
             total |-> Len(keys)]

\* the tables the API is run against: empty, one track, two tracks in
\* either order
ApiTables ==
    {PipelineTable(tracks) :
        tracks \in {<<>>} \cup {<<a>> : a \in CacheTrackPool}
                   \cup {pair \in CacheTrackPool \X CacheTrackPool : pair[1] # pair[2]}}

\* the requests sent to the API
ApiRequest(route, track_id, track_name, artist_name, k, embedding_type, text, vector, offset) ==
    [route |-> route, track_id |-> track_id, track_name |-> track_name,
     artist_name |-> artist_name, k |-> k, embedding_type |-> embedding_type,
     text |-> text, vector |-> vector, offset |-> offset, track_ids |-> <<>>,
     min_similarity |-> 0, service |-> "ok"]

RecommendRequests ==
    {ApiRequest("recommend", id, name, artist, 1, type, <<>>, <<>>, 0) :
        id \in {"", "t1", AbsentId}, name \in {<<>>, Str_ab},
        artist \in {<<>>, Str_y}, type \in {"combined", "lyrics"}}

ListRequests == {ApiRequest("tracks", "", <<>>, <<>>, 1, "combined", <<>>, <<>>, o) : o \in 0..1}

\* queries that are plain text, that are patterns (any character, an
\* alternation, an escaped plus sign, an anchored letter) and that do not
\* compile
SearchRequests ==
    {ApiRequest("search", "", <<>>, <<>>, limit, "combined", text, <<>>, 0) :
        limit \in 1..2,
        text \in {<<"a">>, Str_x, <<".">>, <<"A", "|", "Y">>, <<"b", "$">>,
                  <<"a", "+", "b">>, <<"(", "a">>}}

\* min_similarity is the default, 0 or 1; service and vector are what the
\* embedding service does with the query text
SemanticRequests ==
    {[ApiRequest("semantic", "", <<>>, <<>>, k, "combined", <<>>, vector, 0)
         EXCEPT !.min_similarity = min_similarity, !.service = service] :
        k \in 1..2, vector \in {E1, V34},
        min_similarity \in {DefaultMinSimilarity, 0, SCORE_ONE},
        service \in EmbeddingService}

BatchRequests ==
    {[NoReq EXCEPT !.route = "batch", !.k = 1, !.track_ids = ids] :
        ids \in {<<"t1">>, <<"t1", "t2">>, <<AbsentId>>, <<"t1", "t1">>}}

ApiInit ==
    /\ SimIdle
    /\ CombIdle
    /\ NormIdle
    /\ FindIdle
    /\ TextIdle
    /\ RetryIdle
    /\ SearchIdle
    /\ EngIdle
    /\ MoreIdle
    /\ table \in ApiTables
    /\ cache = [loaded |-> FALSE, df |-> <<>>]
    /\ recCfg \in [exclude_same_artist : {FALSE},
                   min_similarity_threshold : {0},
                   fuzzy_matching : {TRUE},
                   fuzzy_threshold : {(8 * SCALE) \div 10},
                   cache_embeddings : BOOLEAN]
    /\ recCall = NoCall
    /\ recDf = <<>>
    /\ recOutcome = NoOutcome
    /\ recSteps = <<>>
    /\ recFetched = FALSE
    /\ age = 0
    /\ apiBoot = 0
    /\ recommender_instance = FALSE
    /\ apiReq = NoReq
    /\ apiResp = NoResp
    /\ apiSnap = NoSnap

ApiFrame == <<recCfg, recCall, recDf, recOutcome, recSteps, age, simVars, combVars, normVars, engVars, findVars, textVars, retryVars, searchVars, moreVars>>

\* the next step of startup_event, the fetch of load_data succeeding
StartupStep ==
    /\ apiBoot \in 0..(Len(StartupOrder) - 1)
    /\ apiBoot' = apiBoot + 1
    /\ LET step == StartupOrder[apiBoot + 1]
       IN /\ cache' = IF step = "load_data" /\ recCfg.cache_embeddings
                      THEN [loaded |-> TRUE, df |-> table] ELSE cache
          /\ recFetched' = (step = "load_data")
          /\ recommender_instance' = (recommender_instance \/ step = "set_recommender")
    /\ UNCHANGED <<table, apiReq, apiResp, apiSnap, ApiFrame>>

\* the fetch of load_data raises during start-up: startup_event re-raises
\* (app.py:90-92) and the steps after it are not run
StartupLoadFails ==
    /\ apiBoot \in 0..(Len(StartupOrder) - 1)
    /\ StartupOrder[apiBoot + 1] = "load_data"
    /\ apiBoot' = StartupFailed
    /\ recFetched' = TRUE
    /\ UNCHANGED <<table, cache, recommender_instance, apiReq, apiResp, apiSnap, ApiFrame>>

\* get_batch_recommendations is inside its loop: the response under
\* construction holds the outcomes of the identifiers done so far
BatchRunning == apiResp.status = "running"

\* a handler has run for request req
Answer(req, handled) ==
    /\ ~BatchRunning
    /\ apiReq' = req
    /\ apiResp' = handled.resp
    /\ apiSnap' = handled.snap
    /\ cache' = handled.cache
    /\ recFetched' = handled.fetched
    /\ UNCHANGED <<table, apiBoot, recommender_instance, ApiFrame>>

HealthCheck ==
    \E handled \in {health_check(recommender_instance, cache)} :
        Answer([NoReq EXCEPT !.route = "health"], handled)

ListTracks ==
    \E req \in ListRequests :
    \E fetch_ok \in BOOLEAN :
    \E handled \in {list_tracks(recommender_instance, cache, table, fetch_ok, recCfg, req.k, req.offset)} :
        Answer(req, handled)

SearchTracks ==
    \E req \in SearchRequests :
    \E fetch_ok \in BOOLEAN :
    \E handled \in {search_tracks(recommender_instance, cache, table, fetch_ok, recCfg, req.text, req.k)} :
        Answer(req, handled)

Recommend ==
    \E req \in RecommendRequests :
    \E fetch_ok \in BOOLEAN :
    \E got \in {load_or_cached(cache, table, fetch_ok, recCfg)} :
    \E query_row \in {_find_track(got.df, req.track_id, req.track_name, req.artist_name, recCfg)} :
    \E run \in {get_recommendations_from(got.df, query_row, req, recCfg, metric, tiesStable)} :
    \E outcome \in {IF got.raised THEN Raised("load_data") ELSE run.outcome} :
    \E query_result \in {_find_track(got.cache.df, "", req.track_name, req.artist_name, recCfg)} :
    \E handled \in {get_recommendations_handler(recommender_instance, cache, got, outcome, query_result, req)} :
        Answer(req, handled)

SemanticSearch ==
    \E req \in SemanticRequests :
    \E fetch_ok \in BOOLEAN :
    \E handled \in {semantic_search(recommender_instance, cache, table, fetch_ok, recCfg, metric, tiesStable, req.service, req.vector, req.k, req.min_similarity)} :
        Answer(req, handled)

\* get_batch_recommendations is called on the recommender once it is built
\* (recommender.py:292): results = {}
GetBatchRecommendations ==
    \E req \in BatchRequests :
        /\ apiBoot >= 1
        /\ ~BatchRunning
        /\ apiReq' = req
        /\ apiResp' = [status |-> "running", query |-> NoRow, results |-> <<>>, total |-> 0]
        /\ apiSnap' = NoSnap
        /\ recFetched' = FALSE
        /\ UNCHANGED <<table, cache, apiBoot, recommender_instance, ApiFrame>>

\* the next pass of its loop (lines 294-300), and after the last one the
\* return of line 302; the source may have been rewritten since the pass
\* before
BatchIterate ==
    /\ BatchRunning
    /\ \E fetch_ok \in BOOLEAN :
       \E pass \in {batch_iteration(cache, table, fetch_ok,
                                  apiReq.track_ids[Len(apiResp.results) + 1], apiReq.k,
                                  apiReq.embedding_type, recCfg, metric, tiesStable)} :
       \E outcomes \in {Append(apiResp.results, pass.outcome)} :
        /\ apiResp' = IF pass.outcome.kind = "raised" \/ Len(outcomes) = Len(apiReq.track_ids)
                      THEN get_batch_recommendations(apiReq.track_ids, outcomes)
                      ELSE [apiResp EXCEPT !.results = outcomes]
        /\ apiSnap' = IF pass.got.raised THEN NoSnap ELSE Snap(pass.got.df)
        /\ cache' = pass.got.cache
        /\ recFetched' = pass.got.fetched
        /\ UNCHANGED <<table, apiBoot, recommender_instance, apiReq, ApiFrame>>

\* the embeddings pipeline rewrites the source table behind the API
ApiSourceRewritten ==
    \E rewritten \in ApiTables \ {table} :
        /\ table' = rewritten
        /\ recFetched' = FALSE
        /\ UNCHANGED <<cache, apiVars, ApiFrame>>

ApiNext ==
    \/ StartupStep \/ StartupLoadFails \/ HealthCheck \/ ListTracks \/ SearchTracks
    \/ Recommend \/ SemanticSearch \/ GetBatchRecommendations \/ BatchIterate
    \/ ApiSourceRewritten

SpecApi == ApiInit /\ [][ApiNext]_vars

\* ------------- specification: a query in flight while the data is reloaded
\* mutant of FrameAt: the assembly of the list reads the cache again
FrameAtRereads(stage, df, c) ==
    IF stage = "assemble" /\ c.loaded /\ Len(c.df) = Len(df) THEN c.df ELSE df

\* the frame a statement of get_recommendations works on: the local df that
\* lines 102-105 bound, whatever the cache refers to by then (lines 108-150
\* name df only)
FrameAt(stage, df, c) == df

RaceCalls ==
    [track_id : {"t1", "t2", AbsentId}, track_name : {<<>>}, artist_name : {<<>>},
     k : {1}, embedding_type : {"combined"}]
    \cup [track_id : {""}, track_name : {Str_ab}, artist_name : {<<>>},
          k : {1}, embedding_type : {"combined", "lyrics"}]

RaceInit ==
    /\ SimIdle
    /\ CombIdle
    /\ NormIdle
    /\ EngIdle
    /\ FindIdle
    /\ TextIdle
    /\ RetryIdle
    /\ SearchIdle
    /\ ApiIdle
    /\ FeatIdle
    /\ PipeIdle
    /\ RaceIdle
    /\ table \in ApiTables
    /\ cache = [loaded |-> FALSE, df |-> <<>>]
    /\ recCfg \in [exclude_same_artist : {FALSE},
                   min_similarity_threshold : {0},
                   fuzzy_matching : {TRUE},
                   fuzzy_threshold : {(8 * SCALE) \div 10},
                   cache_embeddings : BOOLEAN]
    /\ recCall = NoCall
    /\ recDf = <<>>
    /\ recOutcome = NoOutcome
    /\ recSteps = <<>>
    /\ recFetched = FALSE
    /\ age = 0

RaceFrame == <<recCfg, recCall, recDf, recOutcome, recSteps, recFetched, age, simVars, combVars, normVars, engVars, findVars, textVars, retryVars, searchVars, apiVars, featVars, pipeVars>>

\* the call returns or raises
RaceEnds(outcome) ==
    /\ raceOutcome' = outcome
    /\ racePc' = "done"

\* get_recommendations is entered and tests the cache (line 102)
RaceBegin ==
    \E args \in RaceCalls :
        /\ racePc = "idle"
        /\ raceCall' = args
        /\ raceMiss' = CacheMiss(cache, age)
        /\ racePc' = "test"
        /\ UNCHANGED <<raceDf, raceRow, raceMatrix, raceIndex, raceSimilar, raceOutcome>>
        /\ UNCHANGED <<loadPc, loadDf, table, cache, RaceFrame>>

\* df = self._embeddings_cache (line 105)
RaceBindCached ==
    /\ racePc = "test"
    /\ ~raceMiss
    /\ raceDf' = cache.df
    /\ racePc' = "bound"
    /\ UNCHANGED <<raceCall, raceMiss, raceRow, raceMatrix, raceIndex, raceSimilar, raceOutcome>>
    /\ UNCHANGED <<loadPc, loadDf, table, cache, RaceFrame>>

\* df = self.load_data() (line 103): the query of load_data (line 69),
\* which yields the table or raises; the exception leaves the call
RaceLoadFetch ==
    /\ racePc = "test"
    /\ raceMiss
    /\ \E fetch_ok \in BOOLEAN :
          IF fetch_ok
          THEN /\ raceDf' = table
               /\ racePc' = "fetched"
               /\ UNCHANGED raceOutcome
          ELSE RaceEnds(Raised("load_data")) /\ UNCHANGED raceDf
    /\ UNCHANGED <<raceCall, raceMiss, raceRow, raceMatrix, raceIndex, raceSimilar>>
    /\ UNCHANGED <<loadPc, loadDf, table, cache, RaceFrame>>

\* ... and its assignment of the cache (lines 75-78)
RaceLoadAssign ==
    /\ racePc = "fetched"
    /\ cache' = IF recCfg.cache_embeddings THEN [loaded |-> TRUE, df |-> raceDf] ELSE cache
    /\ racePc' = "bound"
    /\ UNCHANGED <<raceCall, raceMiss, raceDf, raceRow, raceMatrix, raceIndex, raceSimilar, raceOutcome>>
    /\ UNCHANGED <<loadPc, loadDf, table, RaceFrame>>

\* query_row = self._find_track(df, ...) and the tests of lines 110 and 122
RaceResolve ==
    /\ racePc = "bound"
    /\ \E query_row \in {_find_track(FrameAt("resolve", raceDf, cache), raceCall.track_id,
                                       raceCall.track_name, raceCall.artist_name, recCfg)} :
          /\ raceRow' = query_row
          /\ IF query_row = 0 \/ raceCall.embedding_type \notin EmbeddingTypes
             THEN RaceEnds(Returned(<<>>))
             ELSE racePc' = "resolved" /\ UNCHANGED raceOutcome
    /\ UNCHANGED <<raceCall, raceMiss, raceDf, raceMatrix, raceIndex, raceSimilar>>
    /\ UNCHANGED <<loadPc, loadDf, table, cache, RaceFrame>>

\* embeddings_matrix = np.vstack(df[embedding_col].values) (line 129)
RaceMatrix ==
    /\ racePc = "resolved"
    /\ \E df \in {FrameAt("matrix", raceDf, cache)} :
          IF ~VStackable(df, raceCall.embedding_type)
          THEN RaceEnds(Raised("similarity")) /\ UNCHANGED raceMatrix
          ELSE /\ raceMatrix' = [p \in 1..Len(df) |-> EmbeddingOf(df[p], raceCall.embedding_type)]
               /\ racePc' = "matrix"
               /\ UNCHANGED raceOutcome
    /\ UNCHANGED <<raceCall, raceMiss, raceDf, raceRow, raceIndex, raceSimilar>>
    /\ UNCHANGED <<loadPc, loadDf, table, cache, RaceFrame>>

\* query_index = df[df['track_id'] == query_track_id].index[0] (line 132)
RaceIndex ==
    /\ racePc = "matrix"
    /\ raceIndex' = QueryIndex(FrameAt("index", raceDf, cache), raceDf[raceRow].track_id)
    /\ racePc' = "indexed"
    /\ UNCHANGED <<raceCall, raceMiss, raceDf, raceRow, raceMatrix, raceSimilar, raceOutcome>>
    /\ UNCHANGED <<loadPc, loadDf, table, cache, RaceFrame>>

\* similar_indices = self.similarity_engine.find_similar(...) (lines 135-140)
RaceSearch ==
    /\ racePc = "indexed"
    /\ IF \A p \in 1..Len(raceMatrix) : raceMatrix[p] = NoneVec
       THEN RaceEnds(Raised("similarity")) /\ UNCHANGED raceSimilar
       ELSE /\ raceSimilar' = find_similar(metric, tiesStable,
                                   EmbeddingOf(raceDf[raceRow], raceCall.embedding_type),
                                   raceMatrix, raceCall.k + 1, {raceIndex})
            /\ racePc' = "searched"
            /\ UNCHANGED raceOutcome
    /\ UNCHANGED <<raceCall, raceMiss, raceDf, raceRow, raceMatrix, raceIndex>>
    /\ UNCHANGED <<loadPc, loadDf, table, cache, RaceFrame>>

\* the loop of lines 145-170 and the return
RaceAssemble ==
    /\ racePc = "searched"
    /\ RaceEnds(Returned(Assemble(FrameAt("assemble", raceDf, cache), raceSimilar, 1,
                                  raceIndex, raceDf[raceRow].artist_name, raceCall.k,
                                  recCfg, <<>>)))
    /\ UNCHANGED <<raceCall, raceMiss, raceDf, raceRow, raceMatrix, raceIndex, raceSimilar>>
    /\ UNCHANGED <<loadPc, loadDf, table, cache, RaceFrame>>

\* the caller takes the outcome
RaceDeliver ==
    /\ racePc = "done"
    /\ raceCall' = NoCall
    /\ racePc' = "idle"
    /\ raceMiss' = FALSE
    /\ raceDf' = <<>>
    /\ raceRow' = 0
    /\ raceMatrix' = <<>>
    /\ raceIndex' = 0
    /\ raceSimilar' = <<>>
    /\ raceOutcome' = NoOutcome
    /\ UNCHANGED <<loadPc, loadDf, table, cache, RaceFrame>>

\* load_data called by another request or by hand: its query (line 69)
ReloadFetch ==
    /\ loadPc = "idle"
    /\ loadDf' = table
    /\ loadPc' = "fetched"
    /\ UNCHANGED <<raceCall, racePc, raceMiss, raceDf, raceRow, raceMatrix, raceIndex, raceSimilar, raceOutcome>>
    /\ UNCHANGED <<table, cache, RaceFrame>>

\* ... and its one assignment self._embeddings_cache = df (lines 75-76)
ReloadAssign ==
    /\ loadPc = "fetched"
    /\ cache' = IF recCfg.cache_embeddings THEN [loaded |-> TRUE, df |-> loadDf] ELSE cache
    /\ loadDf' = <<>>
    /\ loadPc' = "idle"
    /\ UNCHANGED <<raceCall, racePc, raceMiss, raceDf, raceRow, raceMatrix, raceIndex, raceSimilar, raceOutcome>>
    /\ UNCHANGED <<table, RaceFrame>>

\* the embeddings pipeline rewrites the source table
RaceSourceRewritten ==
    \E rewritten \in ApiTables \ {table} :
        /\ table' = rewritten
        /\ UNCHANGED <<cache, raceVars, RaceFrame>>

RaceNext ==
    \/ RaceBegin \/ RaceBindCached \/ RaceLoadFetch \/ RaceLoadAssign
    \/ RaceResolve \/ RaceMatrix \/ RaceIndex \/ RaceSearch \/ RaceAssemble
    \/ RaceDeliver \/ ReloadFetch \/ ReloadAssign \/ RaceSourceRewritten

SpecRace == RaceInit /\ [][RaceNext]_vars

\* ======================================================== find_similar claims
ReturnedIndices == {simResult[i].index : i \in 1..Len(simResult)}

\* the scores find_similar ranked by, recomputed from the call's arguments
RankedScores == Similarities(metric, simCall.query, simCall.matrix, simCall.exclude)

\* C1 (as claimed): no index listed in exclude_indices appears in the result
\* of find_similar, also when k is at least the number of non-excluded rows.
C1_ExcludedNeverReturned ==
    simPc = "done" =>
        \A i \in 1..Len(simResult) : simResult[i].index \notin simCall.exclude

\* C2: find_similar returns at most k pairs, each index a valid row position
\* of the candidate matrix, no index twice.
C2_AtMostKValidDistinct ==
    simPc = "done" =>
        /\ Len(simResult) <= simCall.k
        /\ \A i \in 1..Len(simResult) :
              simResult[i].index \in 0..(Len(simCall.matrix) - 1)
        /\ \A i, j \in 1..Len(simResult) :
              i # j => simResult[i].index # simResult[j].index

\* a call whose result was cut to k >= 1 entries out of more rows
C2_Witness ==
    /\ simPc = "done"
    /\ simCall.k >= 1
    /\ Len(simCall.matrix) > simCall.k
    /\ Len(simResult) = simCall.k

\* C3: the result is ordered by non-increasing score and is a prefix of the
\* full ranking: every pair carries the score its row was ranked by, and no
\* row left out scores strictly higher than a returned one.
C3_DescendingPrefix ==
    simPc = "done" =>
        /\ \A i \in 1..Len(simResult) :
              simResult[i].score = RankedScores[simResult[i].index + 1]
        /\ \A i, j \in 1..Len(simResult) :
              i < j => simResult[i].score >= simResult[j].score
        /\ \A p \in 0..(Len(simCall.matrix) - 1) :
              p \notin ReturnedIndices =>
                 \A i \in 1..Len(simResult) : RankedScores[p + 1] <= simResult[i].score

\* two returned rows of different score, and a row of lower score left out
C3_Witness ==
    /\ simPc = "done"
    /\ Len(simResult) = 2
    /\ simResult[1].score > simResult[2].score
    /\ \E p \in 0..(Len(simCall.matrix) - 1) :
          p \notin ReturnedIndices /\ RankedScores[p + 1] < simResult[2].score

\* C4 (as claimed): of two returned candidates with the same score the one
\* with the smaller original index comes first; and for A=[1,0], B=[0,1],
\* C=[1,0] under cosine, query A, k=2, A excluded, the result is
\* [(C,1.0),(B,0.0)].
C4_TiesSmallerIndexFirst ==
    simPc = "done" =>
        /\ \A i, j \in 1..Len(simResult) :
              (i < j /\ simResult[i].score = simResult[j].score
                     /\ simResult[i].score # NegInf)
                 => simResult[i].index < simResult[j].index
        /\ (/\ metric = "cosine"
            /\ simCall = [query |-> E1, matrix |-> <<E1, E2, E1>>, k |-> 2,
                          exclude |-> {0}])
              => simResult = <<[index |-> 2, score |-> SCORE_ONE],
                               [index |-> 1, score |-> 0]>>

\* ================================================= get_recommendations claims
\* a get_recommendations call has finished and had a frame to work on
CallFinished == recOutcome.kind \in {"returned", "raised"} /\ recOutcome.at # "load_data"

\* the row (1-based, 0 for none) the call's arguments resolve to in its frame
ResolvedRow == _find_track(recDf, recCall.track_id, recCall.track_name,
                           recCall.artist_name, recCfg)

\* some row of the call's frame lacks the vector of the requested type
SomeVectorMissing ==
    /\ recCall.embedding_type \in EmbeddingTypes
    /\ \E p \in 1..Len(recDf) : EmbeddingOf(recDf[p], recCall.embedding_type) = NoneVec

\* C5: a call with a track_id no loaded record has, and no track_name,
\* returns the empty list and raises nothing, whatever k and embedding_type.
C5_AbsentIdReturnsEmpty ==
    (/\ CallFinished
     /\ recCall.track_id # ""
     /\ recCall.track_name = <<>>
     /\ \A p \in 1..Len(recDf) : recDf[p].track_id # recCall.track_id)
        => recOutcome = Returned(<<>>)

\* an absent identifier asked of a loaded table of two tracks
C5_Witness ==
    /\ CallFinished
    /\ recCall.track_id = AbsentId
    /\ recCall.track_name = <<>>
    /\ recCall.k = 2
    /\ Len(recDf) = 2
    /\ recOutcome = Returned(<<>>)

\* C6 (as claimed): for every resolved query and every k >= 0, k = 0 and k
\* above the table size included, the call returns a list of at most k
\* entries, shorter when fewer candidates are accepted, and does not raise
\* (rows lacking a vector are the matter of C8 and are left aside here).
C6_AtMostK ==
    (CallFinished /\ ResolvedRow # 0 /\ ~SomeVectorMissing)
        => /\ recOutcome.kind = "returned"
           /\ Len(recOutcome.value) <= recCall.k

\* C7: the list returned never contains the resolved query record.
C7_QueryNeverRecommended ==
    (recOutcome.kind = "returned" /\ ResolvedRow # 0)
        => \A i \in 1..Len(recOutcome.value) :
              recOutcome.value[i].track_id # recDf[ResolvedRow].track_id

\* a query on a table no larger than k, answered with the other track
C7_Witness ==
    /\ recOutcome.kind = "returned"
    /\ ResolvedRow = 2
    /\ recCall.k >= Len(recDf)
    /\ Len(recOutcome.value) = 1
    /\ recOutcome.value[1].track_id = recDf[1].track_id

\* C8 (as claimed): when the query record or any other loaded record lacks
\* the vector of the requested type the call does not raise, and no record
\* lacking the vector is returned as a candidate.
C8_MissingVectorNoRaise ==
    (CallFinished /\ ResolvedRow # 0 /\ SomeVectorMissing)
        => /\ recOutcome.kind = "returned"
           /\ \A i \in 1..Len(recOutcome.value) :
                 \A p \in 1..Len(recDf) :
                     recDf[p].track_id = recOutcome.value[i].track_id
                        => EmbeddingOf(recDf[p], recCall.embedding_type) # NoneVec

\* C16 (as claimed): a request whose embedding_type is not text, feature or
\* combined is rejected as an error before any computation: no track
\* resolution, no matrix construction, no similarity search is performed.
C16_InvalidTypeRejectedFirst ==
    (CallFinished /\ recCall.embedding_type \notin {"text", "feature", "combined"})
        => /\ recOutcome.kind = "raised"
           /\ recSteps = <<>>

\* C17: with cache_embeddings enabled, once load_data has completed no later
\* get_recommendations call fetches from the source: the cached snapshot is
\* reused whatever time has elapsed (cache_ttl is not consulted) and is
\* replaced only by an explicit load_data call, with a full new snapshot.
C17_CacheReusedUntilReload ==
    [][(recCfg.cache_embeddings /\ cache.loaded) =>
          /\ cache'.loaded
          /\ (recOutcome = NoOutcome /\ recOutcome' # NoOutcome) =>
                 (~recFetched' /\ recDf' = cache.df /\ cache' = cache)
          /\ cache' # cache =>
                 /\ recOutcome' = NoOutcome /\ recOutcome = NoOutcome
                 /\ recFetched'
                 /\ cache' = [loaded |-> TRUE, df |-> table]]_vars

\* a call answered from a snapshot older than cache_ttl while the source
\* table holds other rows by now
C17_Witness ==
    /\ recCfg.cache_embeddings
    /\ cache.loaded
    /\ age >= 1
    /\ table # cache.df
    /\ recOutcome.kind = "returned"
    /\ Len(recOutcome.value) >= 1
    /\ recDf = cache.df
    /\ ~recFetched

\* the call resolved its query and every row has the vector asked for
Ranked ==
    /\ recOutcome.kind = "returned"
    /\ ResolvedRow # 0
    /\ recCall.embedding_type \in EmbeddingTypes
    /\ ~SomeVectorMissing

\* C18 (as claimed): every entry returned satisfies the configured
\* post-filters: with exclude_same_artist its artist differs from the query
\* record's, and its score is not below min_similarity_threshold; with
\* neither filter configured (exclude_same_artist False, no threshold: the
\* value config.get supplies is 0.0) no candidate is dropped by filtering.
C18_PostFiltersOnlyWhenConfigured ==
    Ranked =>
        /\ recCfg.exclude_same_artist =>
              \A i \in 1..Len(recOutcome.value) :
                  recOutcome.value[i].artist_name # recDf[ResolvedRow].artist_name
        /\ \A i \in 1..Len(recOutcome.value) :
              recOutcome.value[i].similarity_score >= recCfg.min_similarity_threshold
        /\ (~recCfg.exclude_same_artist /\ recCfg.min_similarity_threshold = 0) =>
              Len(recOutcome.value) >= Min(recCall.k, Len(recDf) - 1)

\* ================================================== combine_embeddings claims
Missing(row) == row.text_embedding = NoneVec \/ row.feature_embedding = NoneVec

IsZeroVector(v) == \A i \in 1..Len(v) : v[i] = 0

\* the L2 norm of v is 1, to within one percent
IsUnitNorm(v) == Abs(Dot(v, v) - SCORE_ONE) <= SCORE_ONE \div 50

\* C9: a row whose text_embedding or feature_embedding is missing gets a
\* missing combined_embedding, never a vector; every other row gets the
\* vector it gets when combined alone, at its own position.
C9_MissingPropagates ==
    combPc = "done" =>
        /\ Len(combOut) = Len(combDf)
        /\ \A i \in 1..Len(combDf) :
              IF Missing(combDf[i])
              THEN combOut[i] = NoneVec
              ELSE /\ combOut[i] # NoneVec
                   /\ combOut[i] = combine_embeddings(<<combDf[i]>>, combCfg)[1]

\* a frame with a row lacking a vector followed by a complete row
C9_Witness ==
    /\ combPc = "done"
    /\ Len(combDf) = 2
    /\ combDf[1].text_embedding = NoneVec
    /\ combDf[1].feature_embedding # NoneVec
    /\ ~Missing(combDf[2])
    /\ combOut[1] = NoneVec
    /\ Len(combOut[2]) = 5

\* the weighted concatenation of the row is the zero vector
WeightedIsZero(row) ==
    /\ combCfg.text_weight = 0 \/ IsZeroVector(row.text_embedding)
    /\ combCfg.features_weight = 0 \/ IsZeroVector(row.feature_embedding)

\* the components of out are the weighted text components followed by the
\* weighted feature components: each is zero exactly where its source is
TextThenFeatures(out, row) ==
    /\ Len(out) = Len(row.text_embedding) + Len(row.feature_embedding)
    /\ \A j \in 1..Len(row.text_embedding) :
          (out[j] = 0) <=> (combCfg.text_weight = 0 \/ row.text_embedding[j] = 0)
    /\ \A j \in 1..Len(row.feature_embedding) :
          (out[Len(row.text_embedding) + j] = 0)
             <=> (combCfg.features_weight = 0 \/ row.feature_embedding[j] = 0)

\* C10 (as claimed): with normalize=True every present pair of vectors and
\* every pair of weights gives a vector of dimension len(tv)+len(fv) of L2
\* norm 1, zero vectors and zero weights included.
C10_UnitNormAlways ==
    (combPc = "done" /\ combCfg.normalize) =>
        \A i \in 1..Len(combDf) :
            ~Missing(combDf[i]) =>
                /\ TextThenFeatures(combOut[i], combDf[i])
                /\ IsUnitNorm(combOut[i])

\* C10 (amended): with normalize=True the result has dimension
\* len(tv)+len(fv), text components first, and L2 norm 1, except when the
\* weighted concatenation is the zero vector (each input is a zero vector or
\* has weight 0): then the result is the zero vector of that dimension.
C10_UnitNormUnlessZero ==
    (combPc = "done" /\ combCfg.normalize) =>
        \A i \in 1..Len(combDf) :
            ~Missing(combDf[i]) =>
                /\ TextThenFeatures(combOut[i], combDf[i])
                /\ IF WeightedIsZero(combDf[i])
                   THEN IsZeroVector(combOut[i])
                   ELSE IsUnitNorm(combOut[i])

\* a normalised combination of two non-zero vectors under non-zero weights
C10_Witness ==
    /\ combPc = "done"
    /\ combCfg.normalize
    /\ combCfg.text_weight = (7 * SCALE) \div 10
    /\ combCfg.features_weight = (3 * SCALE) \div 10
    /\ combDf[1] = [text_embedding |-> V34, feature_embedding |-> F304]
    /\ IsUnitNorm(combOut[1])
    /\ Len(combOut[1]) = 5

\* ================================================== _normalize_vector claims
\* out is v divided by its L2 norm, each component to within one unit
IsQuotientByNorm(out, v) ==
    /\ Len(out) = Len(v)
    /\ \A i \in 1..Len(v) : Abs(out[i] * Norm(v) - v[i] * SCALE) <= Norm(v)

\* C11: _normalize_vector is total and pure: a vector of L2 norm 0 is
\* returned unchanged, any other vector v is returned as v/||v|| (of norm 1),
\* and the call changes neither its argument nor the combiner's state.
C11_NormalizeTotalPure ==
    /\ [](normPc = "done" =>
             IF IsZeroVector(normArg)
             THEN normOut = normArg
             ELSE IsQuotientByNorm(normOut, normArg) /\ IsUnitNorm(normOut))
    /\ [][normArg' = normArg /\ combCfg' = combCfg]_vars

\* a vector of norm 3 with a negative component, returned scaled to norm 1
C11_Witness ==
    /\ normPc = "done"
    /\ normArg = <<-SCALE, 2 * SCALE, 2 * SCALE>>
    /\ normOut = <<-333, 667, 667>>

\* ==================================================== SimilarityEngine claims
\* C12: constructing SimilarityEngine with a name outside cosine, euclidean,
\* dot raises at construction and yields no engine; every find_similar,
\* compute_similarity and batch_similarity call runs on an engine whose
\* metric is one of the three and returns a value, never failing on the name.
C12_UnsupportedMetricFailsAtConstruction ==
    /\ engState # "none" =>
          (engState = "failed" <=> engRequested \notin {"cosine", "euclidean", "dot"})
    /\ engState = "failed" => (metric = "unset" /\ engOut = NoEngOut)
    /\ engOut # NoEngOut =>
          /\ engState = "ready"
          /\ metric = engRequested
          /\ metric \in {"cosine", "euclidean", "dot"}
          /\ engOut.kind = "returned"

\* a construction refused for an unsupported name: no engine, no call
C12_Witness ==
    /\ engRequested = "manhattan"
    /\ engState = "failed"
    /\ metric = "unset"
    /\ engOut = NoEngOut

\* ========================================================= _find_track claims
\* the rows of the frame carrying the identifier asked for
FindById == {p \in 1..Len(findDf) : findDf[p].track_id = findCall.track_id}

\* the rows whose name equals the name asked for, case ignored
FindExact ==
    {p \in 1..Len(findDf) : lower(findDf[p].track_name) = lower(findCall.track_name)}

\* the candidates that remain after the exact match and, when several match
\* and an artist is given, the narrowing by artist
FindRemaining ==
    IF Cardinality(FindExact) > 1 /\ findCall.artist_name # <<>>
    THEN {p \in FindExact : lower(findDf[p].artist_name) = lower(findCall.artist_name)}
    ELSE FindExact

InStages(stage) == \E i \in 1..Len(findStages) : findStages[i] = stage

LastStage == IF findStages = <<>> THEN "" ELSE findStages[Len(findStages)]

\* the ratio of two strings as the fraction <<numerator, denominator>>
ExactRatio(a, b) ==
    IF Len(a) + Len(b) = 0 THEN <<1, 1>>
    ELSE <<2 * MatchedSize(a, b, 0, Len(a), 0, Len(b)), Len(a) + Len(b)>>

\* the score the claim gives row p, as a fraction: the name ratio alone, or
\* 0.7 * name_ratio + 0.3 * artist_ratio when an artist is given
ClaimedScore(p) ==
    LET name_ratio == ExactRatio(lower(findCall.track_name), lower(findDf[p].track_name))
        artist_ratio == ExactRatio(lower(findCall.artist_name), lower(findDf[p].artist_name))
    IN IF findCall.artist_name = <<>> THEN name_ratio
       ELSE <<7 * name_ratio[1] * artist_ratio[2] + 3 * artist_ratio[1] * name_ratio[2],
              10 * name_ratio[2] * artist_ratio[2]>>

\* fraction s is at least the threshold (in units of 1/SCALE)
ScoreReaches(s, threshold) == s[1] * SCALE >= threshold * s[2]

\* fraction s is at most fraction t
ScoreAtMost(s, t) == s[1] * t[2] <= t[1] * s[2]

\* C13: when track_id is given and a loaded record has it, that record is
\* the result whatever track_name and artist_name are; the exact-name and
\* fuzzy stages are not evaluated.
C13_IdMatchIsTerminal ==
    (findPc = "done" /\ findCall.track_id # "" /\ FindById # {}) =>
        /\ findRow \in FindById
        /\ findStages = <<"id">>

\* an identifier of the second row given together with the name and artist
\* of the first row: the second row is returned
C13_Witness ==
    /\ findPc = "done"
    /\ findCall = [track_id |-> TrackIds[2], track_name |-> Str_ab, artist_name |-> Str_x]
    /\ Len(findDf) = 2
    /\ findDf[1].track_name = Str_ab
    /\ findDf[1].artist_name = Str_x
    /\ findRow = 2

\* C14 (as claimed): the fuzzy stage scans every loaded record, scores it as
\* the name ratio alone (0.7*name_ratio + 0.3*artist_ratio with an artist)
\* and returns the record of highest score if that score is >= the
\* configured threshold; otherwise no record is returned.
C14_FuzzyBestAtLeastThreshold ==
    (findPc = "done" /\ LastStage = "fuzzy") =>
        IF \E p \in 1..Len(findDf) :
               ScoreReaches(ClaimedScore(p), findCfg.fuzzy_threshold)
        THEN /\ findRow \in 1..Len(findDf)
             /\ \A p \in 1..Len(findDf) :
                    ScoreAtMost(ClaimedScore(p), ClaimedScore(findRow))
        ELSE findRow = 0

\* C19 (as claimed): the exact-match stage returns a record only if exactly
\* one candidate remains after the name match and the narrowing by artist;
\* if narrowing eliminates every exact match the fuzzy stage is tried next.
C19_ExactOnlyIfOneRemains ==
    (findPc = "done" /\ InStages("exact")) =>
        /\ (findRow # 0 /\ LastStage # "fuzzy") =>
               (Cardinality(FindRemaining) = 1 /\ findRow \in FindRemaining)
        /\ (FindExact # {} /\ FindRemaining = {} /\ findCfg.fuzzy_matching) =>
               LastStage = "fuzzy"

\* C19 (amended): resolution by name yields one record or fails: the
\* exact-match stage returns the first, in row order, of the candidates that
\* remain after the name match and the narrowing by artist, whenever at
\* least one remains (also when several do); when none remains the fuzzy
\* stage is tried next if fuzzy matching is enabled, else resolution fails.
C19_ExactReturnsFirstRemaining ==
    (findPc = "done" /\ InStages("exact")) =>
        /\ findRow \in 0..Len(findDf)
        /\ IF FindRemaining # {}
           THEN /\ findRow \in FindRemaining
                /\ \A p \in FindRemaining : findRow <= p
                /\ LastStage # "fuzzy"
           ELSE IF findCfg.fuzzy_matching THEN LastStage = "fuzzy" ELSE findRow = 0

\* two rows carry the name asked for, no artist is given: the first is
\* returned
C19_Witness ==
    /\ findPc = "done"
    /\ findCall = [track_id |-> "", track_name |-> Str_ab, artist_name |-> <<>>]
    /\ Len(findDf) = 2
    /\ findDf[1].track_name = Str_AB
    /\ findDf[2].track_name = Str_ab
    /\ findRow = 1

\* C20 (as claimed): the name-matching stages are entered only when no
\* track_id is given: with a track_id no loaded record has, resolution fails
\* even when a track_name that would match is supplied.
C20_AbsentIdFailsDespiteName ==
    findPc = "done" =>
        /\ (InStages("exact") \/ InStages("fuzzy")) => findCall.track_id = ""
        /\ (findCall.track_id # "" /\ FindById = {}) => findRow = 0

\* ========================================== _generate_embeddings_batch claims
\* the value of i at which the batch holding text j (1-based) starts
BatchStartOf(j) == ((j - 1) \div txtBatchSize) * txtBatchSize

\* C15: _generate_embeddings_batch returns one entry per input text in input
\* order; texts go in consecutive batches of batch_size, and when the call
\* for a batch fails every text of that batch, and only of that batch, gets
\* None while the other batches keep their vectors and the run goes on.
C15_OneEntryPerTextInOrder ==
    /\ Len(txtAll) = Min(txtI, Len(txtTexts))
    /\ \A j \in 1..Len(txtAll) :
          txtAll[j] = IF BatchStartOf(j) \in txtFailed
                      THEN NoneVec
                      ELSE EmbedText(txtTexts[j])
    /\ txtPc = "done" => Len(txtAll) = Len(txtTexts)

\* four texts in batches of two and the first call failed: two None, then
\* the vectors of the second batch
C15_Witness ==
    /\ txtPc = "done"
    /\ txtTexts = <<"a", "b", "c", "a">>
    /\ txtBatchSize = 2
    /\ txtFailed = {0}
    /\ txtAll = <<NoneVec, NoneVec, V34, E1>>

\* the number of calls of the embedding service made for the batch that
\* starts at i
CallsFor(i) == Cardinality({n \in 1..Len(txtCalls) : txtCalls[n] = i})

\* C21: a batch whose call of the embedding service failed was retried under
\* the bounded backoff policy and got its None placeholders only once the
\* attempts were exhausted; a failed batch never aborts the run, which ends
\* with one entry per text.
C21_FailedBatchRetriedThenPlaceholders ==
    /\ \A i \in txtFailed : CallsFor(i) = Config.RETRY_MAX_ATTEMPTS
    /\ \A n \in 1..Len(txtCalls) : CallsFor(txtCalls[n]) <= Config.RETRY_MAX_ATTEMPTS
    /\ txtPc = "done" => Len(txtAll) = Len(txtTexts)

\* ================================================ retry_on_api_error claims
\* the attempt ceiling and the base wait of the call in rtResult
EffectiveAttempts == OrDefault(rtMax, Config.RETRY_MAX_ATTEMPTS)
EffectiveBackoff == OrDefault(rtBackoff, Config.RETRY_BACKOFF_SECONDS)

\* C22: a function wrapped by retry_on_api_error(max_attempts, backoff) is
\* invoked at most max_attempts times per call; every invocation but the
\* last raised ConnectionError or TimeoutError, and an invocation that
\* returns or raises anything else is the last, its value or exception going
\* to the caller; the wait before the n-th retry is backoff doubled n-1
\* times and always lies between backoff and 10*backoff; when the last
\* allowed attempt fails, its own exception is re-raised to the caller.
C22_BoundedRetryWithBackoff ==
    rtPc = "done" =>
        LET n == rtResult.attempts
            b == EffectiveBackoff
        IN /\ n \in 1..EffectiveAttempts
           /\ \A a \in 1..(n - 1) : rtScript[a] \in {Raises(t) : t \in TransientErrors}
           /\ rtResult.outcome = rtScript[n]
           /\ rtScript[n] \in {Raises(t) : t \in TransientErrors} => n = EffectiveAttempts
           /\ Len(rtResult.waits) = n - 1
           /\ \A r \in 1..(n - 1) :
                 /\ rtResult.waits[r] = Min(b * Pow2(r - 1), 10 * b)
                 /\ rtResult.waits[r] >= b
                 /\ rtResult.waits[r] <= 10 * b

\* six attempts allowed and all six fail: the waits double from the base to
\* the cap and the sixth exception reaches the caller
C22_Witness ==
    /\ rtPc = "done"
    /\ rtMax = 6
    /\ rtBackoff = 1
    /\ rtScript = <<Raises("ConnectionError"), Raises("TimeoutError"),
                    Raises("ConnectionError"), Raises("ConnectionError"),
                    Raises("ConnectionError"), Raises("TimeoutError")>>
    /\ rtResult = [attempts |-> 6, waits |-> <<1, 2, 4, 8, 10>>,
                   outcome |-> Raises("TimeoutError")]

\* ================================================== search_multiple claims
\* the number of times the decorated method body ran for the track at p
LookupsOf(p) == Cardinality({n \in 1..Len(smLookups) : smLookups[n] = p})

\* C30: search_multiple of the Last.fm and Genius clients runs the API lookup
\* at most once per track and ends after one pass over the input; an
\* exception raised by a call of the API is caught inside the decorated
\* method and turned into None, so no second attempt is made and the track
\* is left out of the result.
C30_OneLookupPerTrackFailuresLeftOut ==
    /\ \A p \in 1..Len(smTracks) : LookupsOf(p) <= 1
    /\ smPc # "raised"
    /\ smFailed \cap smStored = {}

\* ========================================================= API process claims
\* C29: with cache_embeddings enabled, recommender_instance is set only once
\* the snapshot cache is populated; a failed load leaves the instance unset;
\* while it is unset the /health, /tracks, /search and /recommend handlers
\* answer 503 and touch no data.
C29_InstanceOnlyAfterLoad ==
    /\ (recCfg.cache_embeddings /\ recommender_instance) => cache.loaded
    /\ apiBoot = StartupFailed => ~recommender_instance
    /\ (~recommender_instance /\ apiReq.route \in {"health", "tracks", "search", "recommend"})
           => /\ apiResp.status = "503"
              /\ apiSnap = NoSnap

\* start-up failed at load_data and a /recommend request that names an
\* existing track was answered 503
C29_Witness ==
    /\ apiBoot = StartupFailed
    /\ ~cache.loaded
    /\ Len(table) = 2
    /\ apiReq.route = "recommend"
    /\ apiReq.track_id = "t1"
    /\ apiResp.status = "503"

\* the service call of the last /recommend request, on the frame it used
ServiceOutcome == get_recommendations(apiSnap.df, apiReq, recCfg, metric, tiesStable)

\* the row the service resolved for the last /recommend request
ServiceRow == _find_track(apiSnap.df, apiReq.track_id, apiReq.track_name, apiReq.artist_name, recCfg)

\* C27: whenever the service returns a non-empty list to the /recommend
\* handler, the handler answers with success and its query summary is the
\* record the service resolved and ranked against, for every combination of
\* track_id, track_name and artist_name.
C27_SummaryIsResolvedRecord ==
    (/\ apiReq.route = "recommend"
     /\ apiSnap # NoSnap
     /\ ServiceOutcome.kind = "returned"
     /\ ServiceOutcome.value # <<>>)
        => /\ apiResp.status = "200"
           /\ apiResp.query = Summary(apiSnap.df[ServiceRow])
           /\ apiResp.results = ServiceOutcome.value

\* a handler ran in this step: neither start-up nor the source moved
QueryStep == apiBoot' = apiBoot /\ table' = table

\* the outcome a pass of get_batch_recommendations appends when it works on
\* frame df: that of get_recommendations for the next identifier
PassOutcome(df) ==
    get_recommendations(df, [track_id |-> apiReq.track_ids[Len(apiResp.results) + 1],
                             track_name |-> <<>>, artist_name |-> <<>>,
                             k |-> apiReq.k, embedding_type |-> apiReq.embedding_type],
                        recCfg, metric, tiesStable)

\* C23: the handlers and get_batch_recommendations leave a cached snapshot
\* as it is, the cache changes only where load_data runs, and a query
\* repeated on the same snapshot gets the same answer (for a handler the
\* response it gave before, for a pass of get_batch_recommendations the
\* outcome that the snapshot and the identifier determine).
C23_QueriesLeaveSnapshotUnchanged ==
    [][/\ (QueryStep /\ cache.loaded) => cache' = cache
       /\ cache' # cache => (recFetched' /\ cache' = [loaded |-> TRUE, df |-> table])
       /\ (QueryStep /\ apiReq' = apiReq /\ apiSnap # NoSnap /\ apiSnap' = apiSnap
              /\ ~BatchRunning /\ ~BatchRunning')
             => apiResp' = apiResp
       /\ (BatchRunning /\ apiResp' # apiResp /\ apiSnap' # NoSnap)
             => LET outcomes == Append(apiResp.results, PassOutcome(apiSnap'.df))
                IN IF BatchRunning' THEN apiResp'.results = outcomes
                   ELSE apiResp' = get_batch_recommendations(apiReq.track_ids, outcomes)]_vars

\* a /recommend request answered with success from the cached snapshot
\* while the source table holds other rows by now
C23_Witness ==
    /\ cache.loaded
    /\ table # cache.df
    /\ apiSnap = cache
    /\ apiReq.route = "recommend"
    /\ apiResp.status = "200"
    /\ Len(apiResp.results) = 1

\* ---------------------------------------------------------------- C28
\* the vector of the requested type of row p of the call's frame
QueryVector(p) == EmbeddingOf(recDf[p], recCall.embedding_type)

\* the ranking find_similar gives the call's query over its frame when asked
\* for n entries
RankedFirst(n) ==
    find_similar(metric, tiesStable, QueryVector(ResolvedRow),
                 [p \in 1..Len(recDf) |-> QueryVector(p)], n,
                 {QueryIndex(recDf, recDf[ResolvedRow].track_id)})

\* entry c of a ranking passes the same-artist and minimum-score filters
PassesFilters(c) ==
    /\ c.index # QueryIndex(recDf, recDf[ResolvedRow].track_id)
    /\ ~(recCfg.exclude_same_artist
          /\ recDf[c.index + 1].artist_name = recDf[ResolvedRow].artist_name)
    /\ c.score >= recCfg.min_similarity_threshold

\* C28: every record returned by get_recommendations is one of the k+1
\* highest-ranked candidates of the single find_similar call and passes the
\* filters; the filters act after that truncation and nothing further is
\* fetched, so the list is no longer than the number of those k+1 candidates
\* that pass, however many records of the whole table would pass.
C28_ReturnedAmongTruncatedCandidates ==
    Ranked =>
        LET candidates == RankedFirst(recCall.k + 1)
        IN /\ \A i \in 1..Len(recOutcome.value) :
                 \E j \in 1..Len(candidates) :
                     /\ recDf[candidates[j].index + 1].track_id = recOutcome.value[i].track_id
                     /\ PassesFilters(candidates[j])
           /\ Len(recOutcome.value)
                 <= Cardinality({j \in 1..Len(candidates) : PassesFilters(candidates[j])})

\* fewer than k entries came back although a record ranked below the k+1
\* nearest would have passed the filters
C28_Witness ==
    /\ Ranked
    /\ recCall.k >= 1
    /\ Len(recOutcome.value) < recCall.k
    /\ LET whole == RankedFirst(Len(recDf))
       IN \E j \in (recCall.k + 2)..Len(whole) : PassesFilters(whole[j])

\* ---------------------------------------------------------------- C25
\* C25 (as claimed): missing values are imputed before the scaler is fitted,
\* each with its own column's observed median, a column whose values are all
\* missing is filled with 0, and no missing value remains in the matrix
\* handed to the scaler.
C25_NoMissingValueReachesScaler ==
    (featPc = "done" /\ featHanded # <<>>) =>
        \A c \in 1..Len(featHanded) : \A r \in 1..Len(featHanded[c]) :
            ~isna(featHanded[c][r])

\* ---------------------------------------------------------------- C26
\* the frame fails the quality gate as the claim lists it: a required field
\* is missing, a field's completeness is below the minimum, or the rate of
\* duplicated identifiers is above the maximum
FailsQualityGate(df) ==
    \/ RequiredSet \ df.columns # {}
    \/ \E f \in RequiredSet \cap df.columns :
           100 * (Len(df.rows) - NaCount(df, f))
               < QUALITY_THRESHOLDS.min_completeness * Len(df.rows)
    \/ /\ "track_id" \in df.columns
       /\ 100 * Duplicates(df) > QUALITY_THRESHOLDS.max_duplicates * Len(df.rows)

\* the run got as far as the validation and the dataset was there to write to
ValidatedAndFinished ==
    /\ pipePc = "done"
    /\ pipePassed # "none"
    /\ \A i \in 1..Len(pipeLog) : pipeLog[i] # "dataset_error"

\* C26 (as claimed): in TransformationPipeline.run a failed quality
\* validation (missing required field, completeness below the minimum, or
\* duplicate rate above the maximum) only logs a warning: the clean-data
\* write and the features write are both still executed, in that order, and
\* run returns what it returns when the validation passes.
C26_FailedValidationOnlyWarns ==
    ValidatedAndFinished =>
        /\ pipeReturn = "true"
        /\ pipeLog = IF FailsQualityGate(pipeDf)
                     THEN <<"warning", "write_clean", "write_features">>
                     ELSE <<"write_clean", "write_features">>

\* ---------------------------------------------------------------- C24
\* C24: a get_recommendations call binds the cache reference once and does
\* track resolution, matrix construction, query-index lookup and result
\* assembly on that one snapshot, and load_data installs a new snapshot by
\* one reference assignment; under any interleaving of a reload with a query
\* in flight the query's indices and records all come from one snapshot.
C24_QueryUsesOneSnapshot ==
    /\ cache.loaded => cache.df \in ApiTables
    /\ racePc \notin {"idle", "test"} => raceDf \in ApiTables
    /\ racePc \in {"indexed", "searched"} =>
           /\ raceRow \in 1..Len(raceDf)
           /\ raceIndex = raceRow - 1
           /\ Len(raceMatrix) = Len(raceDf)
    /\ racePc = "done" =>
           raceOutcome = IF raceMiss /\ raceDf = <<>> /\ raceOutcome.at = "load_data"
                         THEN Raised("load_data")
                         ELSE get_recommendations(raceDf, raceCall, recCfg, metric, tiesStable)

\* a reload replaced the snapshot while the query was past its binding: the
\* query answered from the old one, and the new one would have given another
\* answer
C24_Witness ==
    /\ racePc = "done"
    /\ ~raceMiss
    /\ cache.loaded
    /\ cache.df # raceDf
    /\ Len(cache.df) = Len(raceDf)
    /\ raceOutcome.kind = "returned"
    /\ Len(raceOutcome.value) >= 1
    /\ raceOutcome # get_recommendations(cache.df, raceCall, recCfg, metric, tiesStable)

=============================================================================
